---- MODULE Spec2Model ----
(***************************************************************************)
(* Model of the interactive session core of govuk-rewrite:                *)
(*   packages/cli/src/chat-input.ts     (string helpers)                   *)
(*   packages/cli/src/chat-commands.ts  (command processor)                *)
(*   packages/cli/src/chat-session.ts   (handleSubmittedInput)             *)
(*   packages/cli/src/config.ts, setup.ts, errors.ts, output.ts            *)
(*                                                                         *)
(* Strings are sequences of one-character strings.  An optional value      *)
(* (T | undefined) is a sequence of length 0 or 1.                         *)
(***************************************************************************)
EXTENDS Integers, Sequences, FiniteSets, TLC

VARIABLES state, env, file, overrides, input, deps, outcome, calls, busy, exited,
          resolved, wizard

vars == <<state, env, file, overrides, input, deps, outcome, calls, busy, exited,
          resolved, wizard>>

None == <<>>

Some(v) == <<v>>

IsSome(o) == Len(o) = 1

----------------------------------------------------------------------------
(* Character-level string primitives (JavaScript String methods).          *)

WS == {" ", "\t", "\n", "\r"}

MinOf(S) == CHOOSE m \in S : \A k \in S : m <= k

MaxOf(S) == CHOOSE m \in S : \A k \in S : m >= k

NonWsIdx(s) == {i \in 1..Len(s) : s[i] \notin WS}

TrimStart(s) == IF NonWsIdx(s) = {} THEN <<>> ELSE SubSeq(s, MinOf(NonWsIdx(s)), Len(s))

TrimEnd(s) == IF NonWsIdx(s) = {} THEN <<>> ELSE SubSeq(s, 1, MaxOf(NonWsIdx(s)))

Trim(s) == TrimEnd(TrimStart(s))

StartsWith(s, p) == Len(s) >= Len(p) /\ SubSeq(s, 1, Len(p)) = p

\* s.slice(k): drops the first k characters
SliceFrom(s, k) == SubSeq(s, k + 1, Len(s))

\* s.indexOf(c), zero-based, -1 when absent
IndexOf(s, c) ==
  IF \E i \in 1..Len(s) : s[i] = c
  THEN MinOf({i \in 1..Len(s) : s[i] = c}) - 1
  ELSE -1

UpperToLower ==
  [c \in {"A", "C", "E", "F", "H", "I", "K", "L", "N", "O", "P", "Q", "R", "T", "U"} |->
     CASE c = "A" -> "a" [] c = "C" -> "c" [] c = "E" -> "e" [] c = "F" -> "f"
       [] c = "H" -> "h" [] c = "I" -> "i" [] c = "K" -> "k" [] c = "L" -> "l"
       [] c = "N" -> "n" [] c = "O" -> "o" [] c = "P" -> "p" [] c = "Q" -> "q"
       [] c = "R" -> "r" [] c = "T" -> "t" [] c = "U" -> "u"]

ToLowerCase(s) ==
  [i \in 1..Len(s) |-> IF s[i] \in DOMAIN UpperToLower THEN UpperToLower[s[i]] ELSE s[i]]

\* s.split("\n", 1)[0]
FirstLine(s) == IF IndexOf(s, "\n") = -1 THEN s ELSE SubSeq(s, 1, IndexOf(s, "\n"))

\* s.split(/\s+/, 1)[0]
FirstWsField(s) ==
  IF \E i \in 1..Len(s) : s[i] \in WS
  THEN SubSeq(s, 1, MinOf({i \in 1..Len(s) : s[i] \in WS}) - 1)
  ELSE s

RECURSIVE ReplaceCrLf(_)
ReplaceCrLf(s) ==
  IF s = <<>> THEN <<>>
  ELSE IF Len(s) >= 2 /\ s[1] = "\r" /\ s[2] = "\n"
       THEN <<"\n">> \o ReplaceCrLf(SliceFrom(s, 2))
       ELSE <<s[1]>> \o ReplaceCrLf(Tail(s))

normalizeLineEndings(text) ==
  LET t == ReplaceCrLf(text)
  IN  [i \in 1..Len(t) |-> IF t[i] = "\r" THEN "\n" ELSE t[i]]

isMultiline(text) == \E i \in 1..Len(text) : text[i] = "\n"

\* Some(token) or None
firstSlashToken(text) ==
  LET firstLine == TrimStart(FirstLine(normalizeLineEndings(text)))
      token == ToLowerCase(FirstWsField(SliceFrom(firstLine, 1)))
  IN  IF ~StartsWith(firstLine, <<"/">>) THEN None
      ELSE IF Len(token) > 0 THEN Some(token) ELSE None

----------------------------------------------------------------------------
(* Constants of the program.                                               *)

VALID_PROVIDERS == <<"openai", "anthropic", "openrouter">>

Providers == {VALID_PROVIDERS[i] : i \in 1..Len(VALID_PROVIDERS)}

\* the spelling of each provider tag
ProviderChars ==
  [p \in Providers |->
     CASE p = "openai" -> <<"o", "p", "e", "n", "a", "i">>
       [] p = "anthropic" -> <<"a", "n", "t", "h", "r", "o", "p", "i", "c">>
       [] p = "openrouter" -> <<"o", "p", "e", "n", "r", "o", "u", "t", "e", "r">>]

VALID_MODES ==
  <<"page-body", "error-message", "hint-text", "notification", "button", "heading", "form-label">>

Modes == {VALID_MODES[i] : i \in 1..Len(VALID_MODES)}

ModeChars ==
  [m \in Modes |->
     CASE m = "page-body" -> <<"p", "a", "g", "e", "-", "b", "o", "d", "y">>
       [] m = "error-message" -> <<"e", "r", "r", "o", "r", "-", "m", "e", "s", "s", "a", "g", "e">>
       [] m = "hint-text" -> <<"h", "i", "n", "t", "-", "t", "e", "x", "t">>
       [] m = "notification" -> <<"n", "o", "t", "i", "f", "i", "c", "a", "t", "i", "o", "n">>
       [] m = "button" -> <<"b", "u", "t", "t", "o", "n">>
       [] m = "heading" -> <<"h", "e", "a", "d", "i", "n", "g">>
       [] m = "form-label" -> <<"f", "o", "r", "m", "-", "l", "a", "b", "e", "l">>]

DEFAULT_TIMEOUT_MS == 30000

DEFAULT_MODELS ==
  [p \in Providers |->
     CASE p = "openai" -> <<"g", "p", "t", "-", "4", ".", "1", "-", "m", "i", "n", "i">>
       [] p = "anthropic" ->
            <<"c", "l", "a", "u", "d", "e", "-", "3", "-", "5", "-", "s", "o", "n", "n", "e", "t",
              "-", "l", "a", "t", "e", "s", "t">>
       [] p = "openrouter" ->
            <<"o", "p", "e", "n", "a", "i", "/", "g", "p", "t", "-", "4", ".", "1", "-", "m", "i",
              "n", "i">>]

\* environment variable holding the API key of each provider
keyMap ==
  [p \in Providers |->
     CASE p = "openai" -> "OPENAI_API_KEY"
       [] p = "anthropic" -> "ANTHROPIC_API_KEY"
       [] p = "openrouter" -> "OPENROUTER_API_KEY"]

KeyVars == {keyMap[p] : p \in Providers}

----------------------------------------------------------------------------
(* Display text: a template literal is the sequence of its pieces, each    *)
(* piece a fixed literal or an interpolated string value.                  *)

Lit(s) == [k |-> "lit", s |-> s, v |-> <<>>, n |-> 0]

Val(v) == [k |-> "val", s |-> "", v |-> v, n |-> 0]

Num(n) == [k |-> "num", s |-> "", v |-> <<>>, n |-> n]

\* line.trim() is non-empty (texts carry no whitespace-only pieces)
NonBlank(text) == text # <<>>

----------------------------------------------------------------------------
(* Chat command processor (chat-commands.ts).                              *)

CommandNames ==
  <<"help", "provider", "model", "mode", "context", "explain", "check", "diff", "json",
    "tokens", "show", "quit">>

CommandChars ==
  [c \in {CommandNames[i] : i \in 1..Len(CommandNames)} |->
     CASE c = "help" -> <<"h", "e", "l", "p">>
       [] c = "provider" -> <<"p", "r", "o", "v", "i", "d", "e", "r">>
       [] c = "model" -> <<"m", "o", "d", "e", "l">>
       [] c = "mode" -> <<"m", "o", "d", "e">>
       [] c = "context" -> <<"c", "o", "n", "t", "e", "x", "t">>
       [] c = "explain" -> <<"e", "x", "p", "l", "a", "i", "n">>
       [] c = "check" -> <<"c", "h", "e", "c", "k">>
       [] c = "diff" -> <<"d", "i", "f", "f">>
       [] c = "json" -> <<"j", "s", "o", "n">>
       [] c = "tokens" -> <<"t", "o", "k", "e", "n", "s">>
       [] c = "show" -> <<"s", "h", "o", "w">>
       [] c = "quit" -> <<"q", "u", "i", "t">>]

\* the catalog: the name of each definition, in order
CHAT_COMMAND_DEFINITIONS == [i \in 1..Len(CommandNames) |-> CommandChars[CommandNames[i]]]

KNOWN_CHAT_COMMANDS == {CHAT_COMMAND_DEFINITIONS[i] : i \in 1..Len(CHAT_COMMAND_DEFINITIONS)}

\* a catalog lookup from before /tokens was added
isKnownChatCommandBeforeTokens(token) ==
  ToLowerCase(Trim(token)) \in KNOWN_CHAT_COMMANDS \ {<<"t", "o", "k", "e", "n", "s">>}

\* a catalog lookup that accepts every token
isKnownChatCommandAnyToken(token) == Len(token) >= 0

isKnownChatCommand(token) == ToLowerCase(Trim(token)) \in KNOWN_CHAT_COMMANDS

\* the commands of the catalog whose name starts with the query
listChatCommandSuggestions(query) ==
  LET matching == SelectSeq(CHAT_COMMAND_DEFINITIONS,
                            LAMBDA name : StartsWith(name, ToLowerCase(Trim(query))))
  IN  [i \in 1..Len(matching) |-> [command |-> <<"/">> \o matching[i]]]

\* a toggle parser that lower-cases its argument first
parseToggleAnyCase(value) ==
  IF ToLowerCase(value) = <<"o", "n">> THEN Some(TRUE)
  ELSE IF ToLowerCase(value) = <<"o", "f", "f">> THEN Some(FALSE)
  ELSE None

\* Some(TRUE), Some(FALSE) or None
parseToggle(value) ==
  IF value = <<"o", "n">> THEN Some(TRUE)
  ELSE IF value = <<"o", "f", "f">> THEN Some(FALSE)
  ELSE None

helpText ==
  <<Lit("Commands:")>> \o
  [i \in 1..Len(CHAT_COMMAND_DEFINITIONS) |-> Val(<<"/">> \o CHAT_COMMAND_DEFINITIONS[i])]

OnOff(b) == Lit(IF b THEN "on" ELSE "off")

stateSummary(st) ==
  << <<Lit("provider: "), Lit(st.provider)>>,
     <<Lit("model: "), Val(st.model)>>,
     <<Lit("mode: "), Lit(st.mode)>>,
     <<Lit("context: "), IF IsSome(st.context) THEN Val(st.context[1]) ELSE Lit("(none)")>>,
     <<Lit("explain: "), OnOff(st.explain)>>,
     <<Lit("check: "), OnOff(st.check)>>,
     <<Lit("diff: "), OnOff(st.diff)>>,
     <<Lit("json: "), OnOff(st.json)>>,
     <<Lit("copy: "), OnOff(st.copy)>>,
     <<Lit("tokens: "), OnOff(st.tokens)>>,
     <<Lit("spinner: "), OnOff(st.spinner)>> >>

CmdResult(st, messages, quit) == [state |-> st, messages |-> messages, quit |-> quit]

EnabledWord(b) == Lit(IF b THEN "enabled" ELSE "disabled")

\* one on/off command: flag is the field it sets, label the word of its message
ApplyToggle(st, arg, flag, usage, label) ==
  LET toggle == parseToggle(arg)
  IN  IF toggle = None
      THEN CmdResult(st, << <<Lit(usage)>> >>, FALSE)
      ELSE CmdResult([st EXCEPT ![flag] = toggle[1]],
                     << <<Lit(label), EnabledWord(toggle[1]), Lit(".")>> >>, FALSE)

\* a /provider branch that resets the model only when the provider changes
ApplyProviderKeepingModel(st, arg) ==
  IF ~\E p \in Providers : ProviderChars[p] = arg
  THEN CmdResult(st, << <<Lit("Invalid provider. Valid values: openai, anthropic, openrouter")>> >>,
                 FALSE)
  ELSE LET provider == CHOOSE p \in Providers : ProviderChars[p] = arg
           nextState == [st EXCEPT !.provider = provider,
                                   !.model = IF provider = st.provider THEN st.model
                                             ELSE DEFAULT_MODELS[provider]]
       IN  CmdResult(nextState,
                     << <<Lit("Provider set to "), Lit(provider), Lit(". Model reset to "),
                          Val(nextState.model), Lit(".")>> >>,
                     FALSE)

ApplyProvider(st, arg) ==
  IF ~\E p \in Providers : ProviderChars[p] = arg
  THEN CmdResult(st, << <<Lit("Invalid provider. Valid values: openai, anthropic, openrouter")>> >>,
                 FALSE)
  ELSE LET provider == CHOOSE p \in Providers : ProviderChars[p] = arg
           nextState == [st EXCEPT !.provider = provider, !.model = DEFAULT_MODELS[provider]]
       IN  CmdResult(nextState,
                     << <<Lit("Provider set to "), Lit(provider), Lit(". Model reset to "),
                          Val(nextState.model), Lit(".")>> >>,
                     FALSE)

ApplyMode(st, arg) ==
  IF ~\E m \in Modes : ModeChars[m] = arg
  THEN CmdResult(st, << <<Lit("Invalid mode. Valid values: "), Lit("page-body, error-message, hint-text, notification, button, heading, form-label")>> >>,
                 FALSE)
  ELSE LET mode == CHOOSE m \in Modes : ModeChars[m] = arg
       IN  CmdResult([st EXCEPT !.mode = mode],
                     << <<Lit("Mode set to "), Lit(mode), Lit(".")>> >>, FALSE)

\* a /context branch that takes a missing argument for 'clear'
ApplyContextClearingOnEmpty(st, arg) ==
  IF arg = <<>> \/ ToLowerCase(arg) = <<"c", "l", "e", "a", "r">>
  THEN CmdResult([st EXCEPT !.context = None], << <<Lit("Context cleared.")>> >>, FALSE)
  ELSE CmdResult([st EXCEPT !.context = Some(arg)], << <<Lit("Context updated.")>> >>, FALSE)

ApplyContext(st, arg) ==
  IF arg = <<>>
  THEN CmdResult(st, << <<Lit("Usage: /context <text> or /context clear")>> >>, FALSE)
  ELSE IF ToLowerCase(arg) = <<"c", "l", "e", "a", "r">>
       THEN CmdResult([st EXCEPT !.context = None], << <<Lit("Context cleared.")>> >>, FALSE)
       ELSE CmdResult([st EXCEPT !.context = Some(arg)], << <<Lit("Context updated.")>> >>, FALSE)

\* a /model branch that copies the quit flag of the /quit branch
ApplyModelQuitting(st, arg) ==
  IF arg = <<>>
  THEN CmdResult(st, << <<Lit("Usage: /model <name>")>> >>, FALSE)
  ELSE CmdResult([st EXCEPT !.model = arg], << <<Lit("Model set to "), Val(arg), Lit(".")>> >>,
                 TRUE)

ApplyModel(st, arg) ==
  IF arg = <<>>
  THEN CmdResult(st, << <<Lit("Usage: /model <name>")>> >>, FALSE)
  ELSE CmdResult([st EXCEPT !.model = arg], << <<Lit("Model set to "), Val(arg), Lit(".")>> >>,
                 FALSE)

UnknownCommandMessage == <<Lit("Unknown command. Run /help to see supported commands.")>>

applyChatCommand(inp, st) ==
  LET trimmed == Trim(inp)
      withoutSlash == SliceFrom(trimmed, 1)
      firstSpace == IndexOf(withoutSlash, " ")
      command == ToLowerCase(IF firstSpace = -1 THEN withoutSlash
                             ELSE SubSeq(withoutSlash, 1, firstSpace))
      arg == IF firstSpace = -1 THEN <<>> ELSE Trim(SliceFrom(withoutSlash, firstSpace + 1))
  IN  IF ~StartsWith(trimmed, <<"/">>) THEN CmdResult(st, <<>>, FALSE)
      ELSE CASE command = CommandChars["help"] -> CmdResult(st, <<helpText>>, FALSE)
             [] command = CommandChars["quit"] ->
                  CmdResult(st, << <<Lit("Exiting interactive mode.")>> >>, TRUE)
             [] command = CommandChars["show"] -> CmdResult(st, stateSummary(st), FALSE)
             [] command = CommandChars["provider"] -> ApplyProvider(st, arg)
             [] command = CommandChars["model"] -> ApplyModel(st, arg)
             [] command = CommandChars["mode"] -> ApplyMode(st, arg)
             [] command = CommandChars["context"] -> ApplyContext(st, arg)
             [] command = CommandChars["explain"] ->
                  ApplyToggle(st, arg, "explain", "Usage: /explain on|off", "Explain ")
             [] command = CommandChars["check"] ->
                  ApplyToggle(st, arg, "check", "Usage: /check on|off", "Check mode ")
             [] command = CommandChars["diff"] ->
                  ApplyToggle(st, arg, "diff", "Usage: /diff on|off", "Diff output ")
             [] command = CommandChars["json"] ->
                  ApplyToggle(st, arg, "json", "Usage: /json on|off", "JSON output ")
             [] command = CommandChars["tokens"] ->
                  ApplyToggle(st, arg, "tokens", "Usage: /tokens on|off", "Token counts ")
             [] OTHER -> CmdResult(st, <<UnknownCommandMessage>>, FALSE)

----------------------------------------------------------------------------
(* Configuration resolver (config.ts).                                     *)

ConfigEnvVars ==
  {"GOVUK_REWRITE_PROVIDER", "GOVUK_REWRITE_MODEL", "GOVUK_REWRITE_TIMEOUT_MS",
   "GOVUK_REWRITE_BASE_URL"}

EnvVars == KeyVars \cup ConfigEnvVars

DigitVal ==
  [c \in {"0", "1", "2", "3", "4", "5", "6", "7", "8", "9"} |->
     CASE c = "0" -> 0 [] c = "1" -> 1 [] c = "2" -> 2 [] c = "3" -> 3 [] c = "4" -> 4
       [] c = "5" -> 5 [] c = "6" -> 6 [] c = "7" -> 7 [] c = "8" -> 8 [] c = "9" -> 9]

RECURSIVE ParseDigits(_, _)
ParseDigits(s, acc) ==
  IF s = <<>> \/ s[1] \notin DOMAIN DigitVal THEN acc
  ELSE ParseDigits(Tail(s), acc * 10 + DigitVal[s[1]])

\* parseInt(s, 10): Some(n), or None for NaN
ParseInt(s) ==
  LET t == TrimStart(s)
      signed == t # <<>> /\ t[1] \in {"-", "+"}
      body == IF signed THEN Tail(t) ELSE t
  IN  IF body = <<>> \/ body[1] \notin DOMAIN DigitVal THEN None
      ELSE Some((IF signed /\ t[1] = "-" THEN -1 ELSE 1) * ParseDigits(body, 0))

\* an optional string that is truthy
Truthy(o) == IsSome(o) /\ o[1] # <<>>

\* a conversion that falls back to openai for a value it does not know
toProviderDefaulting(value) ==
  IF ~IsSome(value) THEN None
  ELSE IF \E p \in Providers : ProviderChars[p] = value[1]
  THEN Some(CHOOSE p \in Providers : ProviderChars[p] = value[1])
  ELSE Some("openai")

\* Some(provider) or None
toProvider(value) ==
  IF IsSome(value) /\ \E p \in Providers : ProviderChars[p] = value[1]
  THEN Some(CHOOSE p \in Providers : ProviderChars[p] = value[1])
  ELSE None

EmptyPartial == [provider |-> None, model |-> None, timeoutMs |-> None, baseUrl |-> None]

\* f is None when the file is unreadable or not JSON, else Some(parsed object)
loadConfigFile(f) ==
  IF ~IsSome(f) THEN EmptyPartial
  ELSE [provider |-> toProvider(f[1].provider),
        model |-> IF Truthy(f[1].model) THEN f[1].model ELSE None,
        timeoutMs |-> f[1].timeoutMs,
        baseUrl |-> IF Truthy(f[1].baseUrl) THEN f[1].baseUrl ELSE None]

loadEnvVars(e) ==
  [provider |-> toProvider(e["GOVUK_REWRITE_PROVIDER"]),
   model |-> IF Truthy(e["GOVUK_REWRITE_MODEL"]) THEN e["GOVUK_REWRITE_MODEL"] ELSE None,
   timeoutMs |-> IF Truthy(e["GOVUK_REWRITE_TIMEOUT_MS"])
                 THEN ParseInt(e["GOVUK_REWRITE_TIMEOUT_MS"][1]) ELSE None,
   baseUrl |-> IF Truthy(e["GOVUK_REWRITE_BASE_URL"]) THEN e["GOVUK_REWRITE_BASE_URL"] ELSE None]

\* a lookup that falls back to the OpenAI key
resolveApiKeyOrOpenAi(e, provider) ==
  IF IsSome(e[keyMap[provider]]) THEN e[keyMap[provider]] ELSE e["OPENAI_API_KEY"]

resolveApiKeyForProvider(e, provider) == e[keyMap[provider]]

\* a ?? b
Coalesce(a, b) == IF IsSome(a) THEN a ELSE b

\* a merge that spreads the file config over the environment's
mergeTiersFileLast(fileConfig, envConfig) ==
  [provider |-> Coalesce(fileConfig.provider, Coalesce(envConfig.provider, Some("openai")))[1],
   model |-> Coalesce(fileConfig.model,
               Coalesce(envConfig.model, Some(DEFAULT_MODELS["openai"])))[1],
   timeoutMs |-> Coalesce(fileConfig.timeoutMs,
                   Coalesce(envConfig.timeoutMs, Some(DEFAULT_TIMEOUT_MS)))[1],
   baseUrl |-> Coalesce(fileConfig.baseUrl, envConfig.baseUrl)]

\* { ...defaults, ...fileConfig, ...envConfig }
mergeTiers(fileConfig, envConfig) ==
  [provider |-> Coalesce(envConfig.provider, Coalesce(fileConfig.provider, Some("openai")))[1],
   model |-> Coalesce(envConfig.model,
               Coalesce(fileConfig.model, Some(DEFAULT_MODELS["openai"])))[1],
   timeoutMs |-> Coalesce(envConfig.timeoutMs,
                   Coalesce(fileConfig.timeoutMs, Some(DEFAULT_TIMEOUT_MS)))[1],
   baseUrl |-> Coalesce(envConfig.baseUrl, fileConfig.baseUrl)]

\* a test that looks at the file and the environment only
modelExplicitlySetNoCli(cli, fileConfig, envConfig) ==
  Truthy(Coalesce(fileConfig.model, envConfig.model))

\* fileConfig.model ?? envConfig.model ?? cliOverrides.model, as a condition
modelExplicitlySet(cli, fileConfig, envConfig) ==
  Truthy(Coalesce(fileConfig.model, Coalesce(envConfig.model, cli.model)))

\* the CLI overrides applied to the merged tiers, then the default model rule
applyOverrides(cli, merged, explicitModel, e) ==
  LET provider == Coalesce(toProvider(cli.provider), Some(merged.provider))[1]
  IN  [provider |-> provider,
       model |-> IF ~explicitModel THEN DEFAULT_MODELS[provider]
                 ELSE IF Truthy(cli.model) THEN cli.model[1] ELSE merged.model,
       timeoutMs |-> IF IsSome(cli.timeout) /\ cli.timeout[1] # 0 THEN cli.timeout[1]
                     ELSE merged.timeoutMs,
       baseUrl |-> merged.baseUrl,
       apiKey |-> resolveApiKeyForProvider(e, provider)]

resolveConfig(cli, f, e) ==
  applyOverrides(cli, mergeTiers(loadConfigFile(f), loadEnvVars(e)),
                 modelExplicitlySet(cli, loadConfigFile(f), loadEnvVars(e)), e)

----------------------------------------------------------------------------
(* Interactive setup wizard (setup.ts).  The answers the user will type    *)
(* are a queue; every ask() takes its head.  A wizard that runs out of     *)
(* answers is still waiting at its prompt ("hang").                        *)

supportsInteractiveSetup(stdinIsTTY, stdoutIsTTY) == stdinIsTTY /\ stdoutIsTTY

\* Some(TRUE), Some(FALSE) or None
parseYesNo(answer, defaultValue) ==
  LET normalized == ToLowerCase(Trim(answer))
  IN  IF normalized = <<>> THEN Some(defaultValue)
      ELSE IF normalized = <<"y">> \/ normalized = <<"y", "e", "s">> THEN Some(TRUE)
      ELSE IF normalized = <<"n">> \/ normalized = <<"n", "o">> THEN Some(FALSE)
      ELSE None

Asked(ok, value, rest, lines, asked) ==
  [ok |-> ok, value |-> value, rest |-> rest, lines |-> lines, asked |-> asked]

RECURSIVE askYesNo(_, _, _)
askYesNo(answers, question, defaultValue) ==
  IF answers = <<>> THEN Asked(FALSE, FALSE, <<>>, <<>>, <<question>>)
  ELSE LET parsed == parseYesNo(Head(answers), defaultValue)
       IN  IF IsSome(parsed) THEN Asked(TRUE, parsed[1], Tail(answers), <<>>, <<question>>)
           ELSE LET r == askYesNo(Tail(answers), question, defaultValue)
                IN  [r EXCEPT !.lines = << <<Lit("Please answer y or n.")>> >> \o @,
                              !.asked = <<question>> \o @]

\* a provider question that is put once: an invalid answer keeps the default
askProviderOnce(answers, current) ==
  IF answers = <<>> THEN Asked(FALSE, current, <<>>, <<>>, <<"provider">>)
  ELSE LET answer == ToLowerCase(Trim(Head(answers)))
       IN  IF \E p \in Providers : ProviderChars[p] = answer
           THEN Asked(TRUE, CHOOSE p \in Providers : ProviderChars[p] = answer, Tail(answers),
                      <<>>, <<"provider">>)
           ELSE Asked(TRUE, current, Tail(answers), <<>>, <<"provider">>)

RECURSIVE askProvider(_, _)
askProvider(answers, current) ==
  IF answers = <<>> THEN Asked(FALSE, current, <<>>, <<>>, <<"provider">>)
  ELSE LET answer == ToLowerCase(Trim(Head(answers)))
       IN  IF answer = <<>> THEN Asked(TRUE, current, Tail(answers), <<>>, <<"provider">>)
           ELSE IF \E p \in Providers : ProviderChars[p] = answer
           THEN Asked(TRUE, CHOOSE p \in Providers : ProviderChars[p] = answer, Tail(answers),
                      <<>>, <<"provider">>)
           ELSE LET r == askProvider(Tail(answers), current)
                IN  [r EXCEPT !.lines = << <<Lit("Invalid provider. Valid values: openai, anthropic, openrouter")>> >> \o @,
                              !.asked = <<"provider">> \o @]

\* value: Some(timeout) or None
RECURSIVE askOptionalTimeout(_)
askOptionalTimeout(answers) ==
  IF answers = <<>> THEN Asked(FALSE, None, <<>>, <<>>, <<"timeout">>)
  ELSE LET answer == Trim(Head(answers))
           parsed == ParseInt(answer)
       IN  IF answer = <<>> THEN Asked(TRUE, None, Tail(answers), <<>>, <<"timeout">>)
           ELSE IF IsSome(parsed) /\ parsed[1] > 0
           THEN Asked(TRUE, parsed, Tail(answers), <<>>, <<"timeout">>)
           ELSE LET r == askOptionalTimeout(Tail(answers))
                IN  [r EXCEPT !.lines = << <<Lit("Timeout must be a positive integer.")>> >> \o @,
                              !.asked = <<"timeout">> \o @]

\* a plain ask(): value is the trimmed answer, None when it is empty
askText(answers, question) ==
  IF answers = <<>> THEN Asked(FALSE, None, <<>>, <<>>, <<question>>)
  ELSE Asked(TRUE, IF Trim(Head(answers)) = <<>> THEN None ELSE Some(Trim(Head(answers))),
             Tail(answers), <<>>, <<question>>)

buildConfigToPersist(provider, model, timeoutMs, baseUrl) ==
  [provider |-> Some(ProviderChars[provider]),
   model |-> IF IsSome(model) /\ Trim(model[1]) # <<>> THEN Some(Trim(model[1])) ELSE None,
   timeoutMs |-> timeoutMs,
   baseUrl |-> IF IsSome(baseUrl) /\ Trim(baseUrl[1]) # <<>> THEN Some(Trim(baseUrl[1])) ELSE None]

\* an object for the config writer that also carries the key in scope
PersistedConfigWithKey(provider, model, timeoutMs, baseUrl, apiKey) ==
  [k \in {"provider", "model", "timeoutMs", "baseUrl", "apiKey"} |->
     IF k = "apiKey" THEN apiKey
     ELSE buildConfigToPersist(provider, model, timeoutMs, baseUrl)[k]]

\* the object runSetup hands to the config writer; apiKey is in scope there
PersistedConfig(provider, model, timeoutMs, baseUrl, apiKey) ==
  buildConfigToPersist(provider, model, timeoutMs, baseUrl)

\* a verification step that does not look at the key
verifyOutcomeWithoutKey(shouldVerify, apiKey, verifyFails) ==
  IF ~shouldVerify THEN [calls |-> 0, lines |-> <<>>]
  ELSE IF verifyFails
       THEN [calls |-> 1, lines |-> << <<Lit("Verification failed: "), Lit("message")>> >>]
       ELSE [calls |-> 1, lines |-> << <<Lit("Verification successful.")>> >>]

\* the verification step: the number of rewrite calls made and the lines written
verifyOutcome(shouldVerify, apiKey, verifyFails) ==
  IF ~shouldVerify THEN [calls |-> 0, lines |-> <<>>]
  ELSE IF ~IsSome(apiKey)
       THEN [calls |-> 0,
             lines |-> << <<Lit("Skipping verification because no API key was provided.")>> >>]
       ELSE IF verifyFails
            THEN [calls |-> 1, lines |-> << <<Lit("Verification failed: "), Lit("message")>> >>]
            ELSE [calls |-> 1, lines |-> << <<Lit("Verification successful.")>> >>]

SetupResult(status, apiKey, provider, lines, written, verifyCalls, asked) ==
  [status |-> status, ran |-> status = "ok", apiKey |-> apiKey, provider |-> provider,
   envVarName |-> keyMap[provider], lines |-> lines, written |-> written,
   verifyCalls |-> verifyCalls, asked |-> asked]

\* no wizard has been started
NoSetup == SetupResult("none", None, "openai", <<>>, None, 0, <<>>)

SetupIntroLines ==
  << <<Lit("govuk-rewrite setup")>>,
     <<Lit("This will save provider defaults to your local config file.")>> >>

SetupOutroLines(envVarName) ==
  << <<Lit("Saved config to "), Lit("configPath")>>,
     <<>>,
     <<Lit("Set your API key in your shell profile:")>>,
     <<Lit("  export "), Lit(envVarName), Lit("=your-key-here")>>,
     <<>>,
     <<Lit("Then run:")>>,
     <<Lit("  govuk-rewrite \"Please kindly complete the form\"")>>,
     <<Lit("  govuk-rewrite chat")>> >>

\* o: [stdinIsTTY, stdoutIsTTY, preferredProvider (optional), answers,
\*     verifyFails, writeFails]; f: the config file.
\* status: "ok", "throw" (the promise rejects) or "hang".
runSetup(o, f) ==
  LET existing == loadConfigFile(f)
      defaultProvider == Coalesce(o.preferredProvider, Coalesce(existing.provider, Some("openai")))[1]
      qProvider == askProvider(o.answers, defaultProvider)
      provider == qProvider.value
      qModel == askText(qProvider.rest, "model")
      qTimeout == askOptionalTimeout(qModel.rest)
      qBaseUrl == askText(qTimeout.rest, "baseUrl")
      qApiKey == askText(qBaseUrl.rest, "apiKey")
      qVerify == askYesNo(qApiKey.rest, "verify", FALSE)
      apiKey == qApiKey.value
      verified == verifyOutcome(qVerify.value, apiKey, o.verifyFails)
      configToPersist ==
        PersistedConfig(provider, qModel.value, qTimeout.value, qBaseUrl.value, apiKey)
      asked1 == qProvider.asked
      asked2 == asked1 \o qModel.asked
      asked3 == asked2 \o qTimeout.asked
      asked4 == asked3 \o qBaseUrl.asked
      asked5 == asked4 \o qApiKey.asked
      asked6 == asked5 \o qVerify.asked
      lines1 == SetupIntroLines \o qProvider.lines
      lines3 == lines1 \o qTimeout.lines
      lines6 == lines3 \o qVerify.lines \o verified.lines
  IN  IF ~supportsInteractiveSetup(o.stdinIsTTY, o.stdoutIsTTY)
      THEN SetupResult("throw", None, defaultProvider, <<>>, None, 0, <<>>)
      ELSE IF ~qProvider.ok THEN SetupResult("hang", None, provider, lines1, None, 0, asked1)
      ELSE IF ~qModel.ok THEN SetupResult("hang", None, provider, lines1, None, 0, asked2)
      ELSE IF ~qTimeout.ok THEN SetupResult("hang", None, provider, lines3, None, 0, asked3)
      ELSE IF ~qBaseUrl.ok THEN SetupResult("hang", None, provider, lines3, None, 0, asked4)
      ELSE IF ~qApiKey.ok THEN SetupResult("hang", None, provider, lines3, None, 0, asked5)
      ELSE IF ~qVerify.ok
           THEN SetupResult("hang", None, provider, lines3 \o qVerify.lines, None, 0, asked6)
      ELSE IF o.writeFails
           THEN SetupResult("throw", None, provider, lines6, None, verified.calls, asked6)
      ELSE SetupResult("ok", apiKey, provider, lines6 \o SetupOutroLines(keyMap[provider]),
                       Some(configToPersist), verified.calls, asked6)

\* writeConfigFile: the file becomes the persisted object
writeConfigFile(f, config) == Some(config)

AutoSetupResult(status, ran, apiKeySet, lines, e, f, setupCalls) ==
  [status |-> status, ran |-> ran, apiKeySet |-> apiKeySet, lines |-> lines, env |-> e,
   file |-> f, setupCalls |-> setupCalls]

\* an offer that puts the entered key under every provider's variable
AutoSetupOutcomeKeyForEveryProvider(e, f, shouldRunSetup, setupResult) ==
  IF ~shouldRunSetup.ok
  THEN AutoSetupResult("hang", FALSE, FALSE, shouldRunSetup.lines, e, f, 0)
  ELSE IF ~shouldRunSetup.value
       THEN AutoSetupResult("ok", FALSE, FALSE, shouldRunSetup.lines, e, f, 0)
  ELSE IF setupResult.status # "ok"
       THEN AutoSetupResult(setupResult.status, FALSE, FALSE,
                            shouldRunSetup.lines \o setupResult.lines, e, f, 1)
  ELSE IF Truthy(setupResult.apiKey)
       THEN AutoSetupResult("ok", TRUE, TRUE, shouldRunSetup.lines \o setupResult.lines,
                            [v \in DOMAIN e |-> IF v \in KeyVars THEN setupResult.apiKey ELSE e[v]],
                            writeConfigFile(f, setupResult.written[1]), 1)
  ELSE AutoSetupResult("ok", TRUE, FALSE, shouldRunSetup.lines \o setupResult.lines, e,
                       writeConfigFile(f, setupResult.written[1]), 1)

\* the offer's outcome: shouldRunSetup is the settled question, setupResult what
\* the wizard settles with when it is run
AutoSetupOutcome(e, f, shouldRunSetup, setupResult) ==
  LET lines == shouldRunSetup.lines \o setupResult.lines
  IN  IF ~shouldRunSetup.ok
      THEN AutoSetupResult("hang", FALSE, FALSE, shouldRunSetup.lines, e, f, 0)
      ELSE IF ~shouldRunSetup.value
           THEN AutoSetupResult("ok", FALSE, FALSE, shouldRunSetup.lines, e, f, 0)
      ELSE IF setupResult.status # "ok"
           THEN AutoSetupResult(setupResult.status, FALSE, FALSE, lines, e, f, 1)
      ELSE IF Truthy(setupResult.apiKey)
           THEN AutoSetupResult("ok", TRUE, TRUE, lines,
                                [e EXCEPT ![setupResult.envVarName] = setupResult.apiKey],
                                writeConfigFile(f, setupResult.written[1]), 1)
      ELSE AutoSetupResult("ok", TRUE, FALSE, lines, e, writeConfigFile(f, setupResult.written[1]), 1)

\* the wizard as the offer runs it: the provider in use is preferred and the
\* answers left after the offer's own question are typed at its prompts
setupImpl(o, f) ==
  runSetup([stdinIsTTY |-> o.stdinIsTTY, stdoutIsTTY |-> o.stdoutIsTTY,
            preferredProvider |-> Some(o.provider),
            answers |-> askYesNo(o.answers, "offer", TRUE).rest,
            verifyFails |-> o.verifyFails, writeFails |-> o.writeFails], f)

\* an offer that takes silence for a no
maybeRunInteractiveSetupDefaultNo(o, e, f) ==
  IF ~supportsInteractiveSetup(o.stdinIsTTY, o.stdoutIsTTY)
  THEN AutoSetupResult("ok", FALSE, FALSE, <<>>, e, f, 0)
  ELSE AutoSetupOutcome(e, f, askYesNo(o.answers, "offer", FALSE), setupImpl(o, f))

\* o: [provider, stdinIsTTY, stdoutIsTTY, answers, verifyFails, writeFails]
maybeRunInteractiveSetupOnMissingKey(o, e, f) ==
  IF ~supportsInteractiveSetup(o.stdinIsTTY, o.stdoutIsTTY)
  THEN AutoSetupResult("ok", FALSE, FALSE, <<>>, e, f, 0)
  ELSE AutoSetupOutcome(e, f, askYesNo(o.answers, "offer", TRUE), setupImpl(o, f))

----------------------------------------------------------------------------
(* Output formatter (output.ts).                                           *)

\* a selection that looks at check before json
selectOutputModeCheckFirst(flags) ==
  IF flags.check THEN "check"
  ELSE IF flags.json THEN "json"
  ELSE IF flags.diff THEN "diff"
  ELSE IF flags.explain THEN "explain"
  ELSE "plain"

selectOutputMode(flags) ==
  IF flags.json THEN "json"
  ELSE IF flags.check THEN "check"
  ELSE IF flags.diff THEN "diff"
  ELSE IF flags.explain THEN "explain"
  ELSE "plain"

\* s.split("\n")
RECURSIVE SplitLines(_)
SplitLines(s) ==
  IF IndexOf(s, "\n") = -1 THEN <<s>>
  ELSE <<SubSeq(s, 1, IndexOf(s, "\n"))>> \o SplitLines(SliceFrom(s, IndexOf(s, "\n") + 1))

\* lcs[i][j] of the dynamic-programming table
RECURSIVE lcs(_, _, _, _)
lcs(a, b, i, j) ==
  IF i = 0 \/ j = 0 THEN 0
  ELSE IF a[i] = b[j] THEN lcs(a, b, i - 1, j - 1) + 1
  ELSE IF lcs(a, b, i - 1, j) >= lcs(a, b, i, j - 1) THEN lcs(a, b, i - 1, j)
  ELSE lcs(a, b, i, j - 1)

DiffLine(op, line) == [op |-> op, line |-> line]

\* the backtrack from (i, j); every step puts its line in front of the later ones
RECURSIVE Backtrack(_, _, _, _)
Backtrack(a, b, i, j) ==
  IF ~(i > 0 \/ j > 0) THEN <<>>
  ELSE IF i > 0 /\ j > 0 /\ a[i] = b[j]
       THEN Backtrack(a, b, i - 1, j - 1) \o <<DiffLine("  ", a[i])>>
  ELSE IF j > 0 /\ (i = 0 \/ lcs(a, b, i, j - 1) >= lcs(a, b, i - 1, j))
       THEN Backtrack(a, b, i, j - 1) \o <<DiffLine("+ ", b[j])>>
  ELSE Backtrack(a, b, i - 1, j) \o <<DiffLine("- ", a[i])>>

\* a backtrack that takes the removed line when both steps are equally good:
\* the diff of the texts the other way round, with added and removed swapped
diffLinesRemovalOnTie(original, rewritten) ==
  [i \in 1..Len(Backtrack(SplitLines(rewritten), SplitLines(original),
                          Len(SplitLines(rewritten)), Len(SplitLines(original)))) |->
     DiffLine(
       CASE Backtrack(SplitLines(rewritten), SplitLines(original),
                      Len(SplitLines(rewritten)), Len(SplitLines(original)))[i].op = "+ " -> "- "
         [] Backtrack(SplitLines(rewritten), SplitLines(original),
                      Len(SplitLines(rewritten)), Len(SplitLines(original)))[i].op = "- " -> "+ "
         [] OTHER -> "  ",
       Backtrack(SplitLines(rewritten), SplitLines(original),
                 Len(SplitLines(rewritten)), Len(SplitLines(original)))[i].line)]

\* a diff of the trimmed texts
diffLinesTrimmed(original, rewritten) ==
  LET a == SplitLines(Trim(original))
      b == SplitLines(Trim(rewritten))
  IN  Backtrack(a, b, Len(a), Len(b))

diffLines(original, rewritten) ==
  LET a == SplitLines(original)
      b == SplitLines(rewritten)
  IN  Backtrack(a, b, Len(a), Len(b))

\* lines.join("\n")
RECURSIVE JoinLines(_)
JoinLines(lines) ==
  IF lines = <<>> THEN <<>>
  ELSE IF Len(lines) = 1 THEN lines[1]
  ELSE lines[1] \o <<"\n">> \o JoinLines(Tail(lines))

\* the two characters put in front of a line of the diff
PrefixChars(op) ==
  CASE op = "  " -> <<" ", " ">>
    [] op = "+ " -> <<"+", " ">>
    [] op = "- " -> <<"-", " ">>

\* the string diffLines returns: every line behind its prefix, joined
diffLinesText(original, rewritten) ==
  JoinLines([i \in 1..Len(diffLines(original, rewritten)) |->
               PrefixChars(diffLines(original, rewritten)[i].op)
                 \o diffLines(original, rewritten)[i].line])

DiffText(d) == [i \in 1..(2 * Len(d)) |->
                  IF i % 2 = 1 THEN Lit(d[(i + 1) \div 2].op) ELSE Val(d[i \div 2].line)]

Bullets(items) == [i \in 1..Len(items) |-> Val(items[i])]

\* o: [result, mode, provider, model, originalText]
formatOutput(o) ==
  CASE o.mode = "json" ->
         <<Lit("{rewrittenText:"), Val(o.result.rewrittenText), Lit("explanation:")>>
           \o Bullets(o.result.explanation) \o <<Lit("issues:")>> \o Bullets(o.result.issues)
           \o <<Lit("provider:"), Lit(o.provider), Lit("model:"), Val(o.model), Lit("}")>>
    [] o.mode = "check" ->
         IF Len(o.result.issues) = 0 THEN <<Lit("No issues found.")>>
         ELSE <<Lit("Issues found:")>> \o Bullets(o.result.issues)
    [] o.mode = "diff" ->
         <<Val(o.result.rewrittenText), Lit("--- diff ---")>>
           \o DiffText(diffLines(o.originalText, o.result.rewrittenText))
    [] o.mode = "explain" ->
         <<Val(o.result.rewrittenText), Lit("--- why this is better ---")>>
           \o Bullets(o.result.explanation)
    [] OTHER -> <<Val(o.result.rewrittenText)>>

\* equal after line-ending normalisation and trim; never in check mode
detectNoImprovement(original, rewritten, checkMode) ==
  IF checkMode THEN FALSE
  ELSE Trim(normalizeLineEndings(original)) = Trim(normalizeLineEndings(rewritten))

----------------------------------------------------------------------------
(* Missing-key error (errors.ts).                                          *)

KEY_INFO ==
  [p \in Providers |->
     CASE p = "openai" -> [envVar |-> "OPENAI_API_KEY", link |-> "https://platform.openai.com/api-keys"]
       [] p = "anthropic" ->
            [envVar |-> "ANTHROPIC_API_KEY", link |-> "https://console.anthropic.com/settings/keys"]
       [] p = "openrouter" -> [envVar |-> "OPENROUTER_API_KEY", link |-> "https://openrouter.ai/keys"]]

\* error lines without the export instruction
buildMissingApiKeyErrorLinesNoExport(provider) ==
  LET info == KEY_INFO[provider]
  IN  << <<Lit("Error: no API key found for provider \""), Lit(provider), Lit("\".")>>,
         <<>>,
         <<Lit("Set the "), Lit(info.envVar), Lit(" environment variable:")>>,
         <<>>,
         <<Lit("Get a key at: "), Lit(info.link)>>,
         <<>> >>

buildMissingApiKeyErrorLines(provider) ==
  LET info == KEY_INFO[provider]
  IN  << <<Lit("Error: no API key found for provider \""), Lit(provider), Lit("\".")>>,
         <<>>,
         <<Lit("Set the "), Lit(info.envVar), Lit(" environment variable:")>>,
         <<Lit("  export "), Lit(info.envVar), Lit("=your-key-here")>>,
         <<>>,
         <<Lit("Get a key at: "), Lit(info.link)>>,
         <<>>,
         <<Lit("Using a different provider? Pass --provider openai | anthropic | openrouter")>>,
         <<>> >>

----------------------------------------------------------------------------
(* Session core (chat-session.ts).                                         *)

Event(kind, text) == [kind |-> kind, text |-> text]

\* the events of the non-blank lines, in order
RECURSIVE LineEvents(_, _)
LineEvents(kind, lines) ==
  IF lines = <<>> THEN <<>>
  ELSE (IF NonBlank(Head(lines)) THEN <<Event(kind, Head(lines))>> ELSE <<>>)
         \o LineEvents(kind, Tail(lines))

MessageEvents(messages) == [i \in 1..Len(messages) |-> Event("system", messages[i])]

NoImprovementText ==
  <<Lit("No improvement suggested. The text is already close to GOV.UK style.")>>

NoCalls ==
  [applyChatCommand |-> 0, commandInput |-> <<>>, resolveApiKey |-> 0, setupRunner |-> 0,
   configResolver |-> 0, rewriteImpl |-> 0, rewriteText |-> <<>>, rewriteKey |-> None,
   rewriteProvider |-> "", outputFormatter |-> 0, clipboardWriter |-> 0]

Submitted(status, st, events, shouldExit, c, e, f) ==
  [status |-> status, state |-> st, events |-> events, shouldExit |-> shouldExit, calls |-> c,
   env |-> e, file |-> f]

\* the value the rewrite implementation resolves with, for the outcome rw
RewriteResult(rw, text) ==
  [rewrittenText |->
     CASE rw.variant = "same" -> text
       [] rw.variant = "padded" -> <<" ">> \o normalizeLineEndings(text) \o <<"\r", "\n">>
       [] OTHER -> <<"O", "K", "\n">> \o text,
   explanation |-> << <<"w", "h", "y">> >>,
   issues |-> IF rw.variant = "same" THEN <<>> ELSE << <<"i", "s", "s", "u", "e">> >>,
   usage |-> IF rw.usage THEN Some([inputTokens |-> 7, outputTokens |-> 3]) ELSE None]

\* a forgotten check flag: the text comparison alone decides
NoImprovementIgnoringCheck(trimmed, result, nextState) ==
  detectNoImprovement(trimmed, result.rewrittenText, FALSE)

\* the no-improvement signal of the rewrite path
NoImprovementFor(trimmed, result, nextState) ==
  detectNoImprovement(trimmed, result.rewrittenText, nextState.check)

\* the note added to the formatted text instead of replacing it
MainEventsWithNote(noImprovement, outputText) ==
  <<Event("assistant", outputText)>>
    \o (IF noImprovement THEN <<Event("success", NoImprovementText)>> ELSE <<>>)

\* the event that carries the result: the reassurance or the formatted text
MainEvents(noImprovement, outputText) ==
  IF noImprovement THEN <<Event("success", NoImprovementText)>>
  ELSE <<Event("assistant", outputText)>>

\* a try block that copies in check mode too
AfterRewriteCopyingInCheck(trimmed, nextState, result, copied) ==
  [events |->
     MainEvents(NoImprovementFor(trimmed, result, nextState),
                formatOutput([result |-> result, mode |-> selectOutputMode(nextState),
                              provider |-> nextState.provider, model |-> nextState.model,
                              originalText |-> trimmed]))
       \o (IF nextState.tokens /\ IsSome(result.usage)
           THEN <<Event("system", <<Lit("tokens: "), Num(result.usage[1].inputTokens),
                                    Lit(" in / "), Num(result.usage[1].outputTokens),
                                    Lit(" out")>>)>>
           ELSE <<>>)
       \o (IF nextState.copy /\ copied
           THEN <<Event("system", <<Lit("(copied to clipboard)")>>)>> ELSE <<>>),
   outputFormatter |-> IF NoImprovementFor(trimmed, result, nextState) THEN 0 ELSE 1,
   clipboardWriter |-> IF nextState.copy THEN 1 ELSE 0]

\* a try block that confirms the copy before the token counts
AfterRewriteCopyFirst(trimmed, nextState, result, copied) ==
  [events |->
     MainEvents(NoImprovementFor(trimmed, result, nextState),
                formatOutput([result |-> result, mode |-> selectOutputMode(nextState),
                              provider |-> nextState.provider, model |-> nextState.model,
                              originalText |-> trimmed]))
       \o (IF nextState.copy /\ ~nextState.check /\ copied
           THEN <<Event("system", <<Lit("(copied to clipboard)")>>)>> ELSE <<>>)
       \o (IF nextState.tokens /\ IsSome(result.usage)
           THEN <<Event("system", <<Lit("tokens: "), Num(result.usage[1].inputTokens),
                                    Lit(" in / "), Num(result.usage[1].outputTokens),
                                    Lit(" out")>>)>>
           ELSE <<>>),
   outputFormatter |-> IF NoImprovementFor(trimmed, result, nextState) THEN 0 ELSE 1,
   clipboardWriter |-> IF nextState.copy /\ ~nextState.check THEN 1 ELSE 0]

\* the part of the handler inside its try block, once the call has resolved
AfterRewrite(trimmed, nextState, result, copied) ==
  LET noImprovement == NoImprovementFor(trimmed, result, nextState)
      outputText == formatOutput([result |-> result, mode |-> selectOutputMode(nextState),
                                  provider |-> nextState.provider, model |-> nextState.model,
                                  originalText |-> trimmed])
      main == MainEvents(noImprovement, outputText)
      tokens == IF nextState.tokens /\ IsSome(result.usage)
                THEN <<Event("system", <<Lit("tokens: "), Num(result.usage[1].inputTokens),
                                         Lit(" in / "), Num(result.usage[1].outputTokens),
                                         Lit(" out")>>)>>
                ELSE <<>>
      clip == IF nextState.copy /\ ~nextState.check /\ copied
              THEN <<Event("system", <<Lit("(copied to clipboard)")>>)>>
              ELSE <<>>
  IN  [events |-> main \o tokens \o clip,
       outputFormatter |-> IF noImprovement THEN 0 ELSE 1,
       clipboardWriter |-> IF nextState.copy /\ ~nextState.check THEN 1 ELSE 0]

\* an emptiness test on the untrimmed text
IsEmptyInputUntrimmed(inputText) == inputText = <<>>

\* the guard of the first return: nothing is left after trimming
IsEmptyInput(inputText) == Trim(inputText) = <<>>

\* the guards of the two command branches
IsCommandInput(inputText) ==
  LET trimmed == Trim(inputText)
      normalizedInput == normalizeLineEndings(inputText)
      hasNewline == isMultiline(normalizedInput)
      slashToken == firstSlashToken(normalizedInput)
  IN  \/ IsSome(slashToken) /\ (~hasNewline \/ isKnownChatCommand(slashToken[1]))
      \/ ~hasNewline /\ StartsWith(trimmed, <<"/">>)

\* the line handed to applyChatCommand
CommandInput(inputText) ==
  LET normalizedInput == normalizeLineEndings(inputText)
      hasNewline == isMultiline(normalizedInput)
      slashToken == firstSlashToken(normalizedInput)
  IN  IF IsSome(slashToken) /\ (~hasNewline \/ isKnownChatCommand(slashToken[1])) /\ hasNewline
      THEN Trim(FirstLine(normalizedInput))
      ELSE Trim(inputText)

\* the bootstrap's result once setup was offered: autoSetup is what the offer
\* settled with, nextState the state after the refresh
KeyBootstrapRefreshed(st, e, f, autoSetup, nextState) ==
  IF autoSetup.status # "ok"
  THEN [status |-> autoSetup.status, nextState |-> st, apiKey |-> None, events |-> <<>>,
        env |-> e, file |-> f,
        calls |-> [NoCalls EXCEPT !.resolveApiKey = 1, !.setupRunner = 1]]
  ELSE [status |-> "ok", nextState |-> nextState,
        apiKey |-> resolveApiKeyForProvider(autoSetup.env, nextState.provider),
        events |-> LineEvents("system", autoSetup.lines),
        env |-> autoSetup.env, file |-> autoSetup.file,
        calls |-> [NoCalls EXCEPT !.resolveApiKey = 2, !.setupRunner = 1,
                                  !.configResolver = IF autoSetup.ran THEN 1 ELSE 0]]

\* a refresh that does not look at the re-resolved provider
RefreshedStateAnyProvider(st, ran, refreshed) ==
  IF ran
  THEN [st EXCEPT !.model = refreshed.model, !.timeoutMs = refreshed.timeoutMs,
                  !.baseUrl = refreshed.baseUrl]
  ELSE st

\* the state after setup has run: the re-resolved settings replace the session's
\* when the provider is still the session's
RefreshedState(st, ran, refreshed) ==
  IF ran /\ refreshed.provider = st.provider
  THEN [st EXCEPT !.model = refreshed.model, !.timeoutMs = refreshed.timeoutMs,
                  !.baseUrl = refreshed.baseUrl]
  ELSE st

\* the bootstrap once the setup offer has settled with autoSetup
KeyBootstrapAfterSetup(st, ov, e, f, autoSetup) ==
  KeyBootstrapRefreshed(st, e, f, autoSetup,
    RefreshedState(st, autoSetup.ran, resolveConfig(ov, autoSetup.file, autoSetup.env)))

\* a bootstrap that offers setup without looking for the key first
KeyBootstrapAlwaysOffering(st, ov, e, f, d) ==
  KeyBootstrapAfterSetup(st, ov, e, f,
    maybeRunInteractiveSetupOnMissingKey(
      [provider |-> st.provider, stdinIsTTY |-> d.stdinIsTTY,
       stdoutIsTTY |-> d.stdoutIsTTY, answers |-> d.answers,
       verifyFails |-> d.verifyFails, writeFails |-> d.writeFails],
      e, f))

\* the API-key bootstrap of the rewrite path
\* d: what the injected dependencies do during this call:
\*   [stdinIsTTY, stdoutIsTTY, answers, verifyFails, writeFails, rewrite, copied]
KeyBootstrap(st, ov, e, f, d) ==
  LET firstKey == resolveApiKeyForProvider(e, st.provider)
  IN  IF Truthy(firstKey)
      THEN [status |-> "ok", nextState |-> st, apiKey |-> firstKey, events |-> <<>>, env |-> e,
            file |-> f, calls |-> [NoCalls EXCEPT !.resolveApiKey = 1]]
      ELSE KeyBootstrapAfterSetup(st, ov, e, f,
             maybeRunInteractiveSetupOnMissingKey(
               [provider |-> st.provider, stdinIsTTY |-> d.stdinIsTTY,
                stdoutIsTTY |-> d.stdoutIsTTY, answers |-> d.answers,
                verifyFails |-> d.verifyFails, writeFails |-> d.writeFails],
               e, f))

\* the return taken when no key is available after the bootstrap
MissingKeyReturn(boot) ==
  Submitted("resolved", boot.nextState,
            boot.events \o LineEvents("error", buildMissingApiKeyErrorLines(boot.nextState.provider)),
            FALSE, boot.calls, boot.env, boot.file)

\* a catch block that reports the bare message
RewriteFailureReturnBare(boot, c, err) ==
  Submitted("resolved", boot.nextState,
            boot.events \o <<Event("error", <<Lit(err.message)>>)>>,
            FALSE, c, boot.env, boot.file)

\* the catch block and the final return; err is what the rewrite call threw
RewriteFailureReturn(boot, c, err) ==
  Submitted("resolved", boot.nextState,
            boot.events \o <<Event("error", <<Lit("Error: "), Lit(err.message)>>)>>,
            FALSE, c, boot.env, boot.file)

\* the command branches: the processor's result becomes the submission's
CommandReturn(command, commandInput, e, f) ==
  Submitted("resolved", command.state, MessageEvents(command.messages), command.quit,
            [NoCalls EXCEPT !.applyChatCommand = 1, !.commandInput = commandInput], e, f)

\* the successful return; c is the call record up to the rewrite call
RewriteSuccessReturn(boot, c, after) ==
  Submitted("resolved", boot.nextState, boot.events \o after.events, FALSE,
            [c EXCEPT !.outputFormatter = after.outputFormatter,
                      !.clipboardWriter = after.clipboardWriter],
            boot.env, boot.file)

\* the rewrite path from the settled key bootstrap on
RewritePath(trimmed, st, e, f, d, boot) ==
  LET c2 == [boot.calls EXCEPT !.rewriteImpl = 1, !.rewriteText = trimmed,
                                !.rewriteKey = boot.apiKey,
                                !.rewriteProvider = boot.nextState.provider]
  IN  IF boot.status = "hang"
      THEN Submitted("hang", st, <<>>, FALSE, boot.calls, e, f)
      ELSE IF boot.status = "throw"
      THEN Submitted("rejected", st, <<>>, FALSE, boot.calls, e, f)
      ELSE IF ~Truthy(boot.apiKey) THEN MissingKeyReturn(boot)
      ELSE IF d.rewrite.kind = "throw" THEN RewriteFailureReturn(boot, c2, d.rewrite)
      ELSE RewriteSuccessReturn(boot, c2,
             AfterRewrite(trimmed, boot.nextState, RewriteResult(d.rewrite, trimmed), d.copied))

handleSubmittedInput(inputText, st, ov, e, f, d) ==
  IF IsEmptyInput(inputText) THEN Submitted("resolved", st, <<>>, FALSE, NoCalls, e, f)
  ELSE IF IsCommandInput(inputText)
  THEN CommandReturn(applyChatCommand(CommandInput(inputText), st), CommandInput(inputText), e, f)
  ELSE RewritePath(Trim(inputText), st, e, f, d, KeyBootstrap(st, ov, e, f, d))

----------------------------------------------------------------------------
(* The session: bootstrap, then one handleSubmittedInput call at a time.   *)

NoOverrides == [provider |-> None, model |-> None, timeout |-> None]

\* the state record bootstrapChatSession builds from the options and the config
BootstrapState(opts, config) ==
  [provider |-> config.provider, model |-> config.model, timeoutMs |-> config.timeoutMs,
   baseUrl |-> config.baseUrl, mode |-> "page-body", context |-> None,
   explain |-> FALSE, check |-> FALSE, diff |-> FALSE, json |-> FALSE,
   spinner |-> opts.spinner, copy |-> opts.copy, tokens |-> opts.tokens]

sSlash == <<"/">>
sHelp == <<"/", "h", "e", "l", "p">>
sQuit == <<"/", "q", "u", "i", "t">>
sQuitUpper == <<"/", "Q", "U", "I", "T">>
sMadeup == <<"/", "m", "a", "d", "e", "u", "p">>
sCheck == <<"/", "c", "h", "e", "c", "k">>
sProvider == <<"/", "p", "r", "o", "v", "i", "d", "e", "r">>
sModel == <<"/", "m", "o", "d", "e", "l">>
sOn == <<"o", "n">>
sOff == <<"o", "f", "f">>
sM1 == <<"m", "1">>
sHi == <<"h", "i">>
sSp == <<" ">>
sLf == <<"\n">>
sCrLf == <<"\r", "\n">>
sTab == <<"\t">>
sKey == <<"s", "k", "-", "1">>

\* command lines submitted on their own
CommandLines ==
  { sSlash, sHelp, sQuit, sQuitUpper, sMadeup,
    sQuit \o sSp \o sHi, sQuit \o sTab \o sHi, sHelp \o sTab \o sHi,
    sCheck, sCheck \o sSp \o sOn, sCheck \o sSp \o sOff, sCheck \o sSp \o <<"O", "N">>,
    <<"/", "C", "h", "e", "c", "k">> \o sSp \o sOn,
    sProvider, sProvider \o sSp \o ProviderChars["openai"],
    sProvider \o sSp \o sSp \o ProviderChars["anthropic"],
    sProvider \o sSp \o ProviderChars["openrouter"],
    sProvider \o sSp \o <<"A", "n", "t", "h", "r", "o", "p", "i", "c">>,
    sModel, sModel \o sSp \o sM1,
    <<"/", "s", "h", "o", "w">> }

\* lines that are also submitted with surrounding white space and further lines
WrappedLines == {sHelp, sQuit, sMadeup, sCheck \o sSp \o sOn, sHi}

Wrapped(l) ==
  { sSp \o l \o sSp, l \o sLf, l \o sCrLf, sLf \o l, l \o sLf \o sHi, l \o <<"\r">> \o sHi,
    sSp \o l \o sCrLf \o sHelp }

Inputs ==
  CommandLines \cup UNION {Wrapped(l) : l \in WrappedLines}
    \cup {sHi, <<>>, sSp, sCrLf, <<" ", "\t", "\n">>}

\* the answers typed at the prompts of the setup offer and the wizard
sYes == <<"y">>
sNo == <<"N", "o">>

NoDeps ==
  [stdinIsTTY |-> FALSE, stdoutIsTTY |-> FALSE, answers |-> <<>>, verifyFails |-> FALSE,
   writeFails |-> FALSE,
   rewrite |-> [kind |-> "none", variant |-> "", usage |-> FALSE, message |-> ""],
   copied |-> FALSE]

Tty(answers) == [NoDeps EXCEPT !.stdinIsTTY = TRUE, !.stdoutIsTTY = TRUE, !.answers = answers]

ScriptKeyOnly == <<sYes, <<>>, <<>>, <<>>, <<>>, sKey, <<>>>>

ScriptVerify ==
  <<sYes, <<"b", "a", "d">>, <<>>, sM1, <<"0">>, <<"5", "0">>, <<>>, sKey, <<"?">>, sYes>>

\* what the terminal, the user and the file system do when setup is offered
SetupScenarios ==
  { [NoDeps EXCEPT !.stdinIsTTY = TRUE],
    Tty(<<sNo>>),
    Tty(<<<<"x">>, <<"n">>>>),
    Tty(<<<<>>, <<>>, <<>>, <<>>, <<>>, <<>>, <<>>>>),
    Tty(ScriptKeyOnly),
    [Tty(ScriptKeyOnly) EXCEPT !.writeFails = TRUE],
    Tty(ScriptVerify),
    [Tty(ScriptVerify) EXCEPT !.verifyFails = TRUE],
    Tty(<<sYes, ProviderChars["openrouter"], <<>>, <<>>, <<"u">>, sKey, sYes>>) }

RewriteOutcomes ==
  { [kind |-> "ok", variant |-> "same", usage |-> FALSE, message |-> ""],
    [kind |-> "ok", variant |-> "padded", usage |-> TRUE, message |-> ""],
    [kind |-> "ok", variant |-> "changed", usage |-> TRUE, message |-> ""],
    [kind |-> "throw", variant |-> "", usage |-> FALSE, message |-> "fetch failed"] }

Idle(st) == [status |-> "none", state |-> st, events |-> <<>>, shouldExit |-> FALSE]

Init ==
  /\ overrides = NoOverrides
  /\ file = None
  /\ env = [v \in EnvVars |-> IF v = "OPENAI_API_KEY" THEN Some(sKey) ELSE None]
  /\ resolved = resolveConfig(overrides, file, env)
  /\ wizard = NoSetup
  /\ \E copy \in BOOLEAN :
       state = BootstrapState([spinner |-> TRUE, copy |-> copy, tokens |-> FALSE], resolved)
  /\ input = <<>>
  /\ deps = NoDeps
  /\ outcome = Idle(state)
  /\ calls = NoCalls
  /\ busy = FALSE
  /\ exited = FALSE

\* what the dependencies can do during one call
Deps ==
  {NoDeps} \cup SetupScenarios
    \cup {[su EXCEPT !.rewrite = rw, !.copied = copied] :
            su \in {NoDeps} \cup SetupScenarios, rw \in RewriteOutcomes, copied \in BOOLEAN}

\* d describes only dependencies the call of inp can reach from this state
Reachable(inp, d) ==
  /\ (IsEmptyInput(inp) \/ IsCommandInput(inp)) => d = NoDeps
  /\ Truthy(resolveApiKeyForProvider(env, state.provider)) =>
        [d EXCEPT !.rewrite = NoDeps.rewrite, !.copied = FALSE] = NoDeps
  /\ ~Truthy(resolveApiKeyForProvider(env, state.provider)) =>
        (IsEmptyInput(inp) \/ IsCommandInput(inp) \/ d.stdinIsTTY)
  /\ d.copied => (state.copy /\ ~state.check /\ d.rewrite.kind = "ok")

\* One handleSubmittedInput call, from the dispatch to the settled promise r.
Call(inp, d, r) ==
  /\ r.status \in {"resolved", "rejected"}
  /\ (r.calls.rewriteImpl = 0) = (d.rewrite.kind = "none")
  /\ input' = inp
  /\ deps' = d
  /\ env' = r.env
  /\ file' = r.file
  /\ outcome' = [status |-> r.status, state |-> r.state, events |-> r.events,
                 shouldExit |-> r.shouldExit]
  /\ calls' = r.calls
  /\ busy' = TRUE
  /\ UNCHANGED <<state, overrides, exited, resolved, wizard>>

Submit ==
  /\ ~busy
  /\ ~exited
  /\ \E inp \in Inputs, d \in Deps :
       /\ Reachable(inp, d)
       /\ Call(inp, d, handleSubmittedInput(inp, state, overrides, env, file, d))

\* The front end takes over the settled result: the returned state replaces the
\* session state, the events are shown, and the session ends on shouldExit.
\* A rejected call is shown as an error and leaves the session state as it was.
Render ==
  /\ busy
  /\ state' = IF outcome.status = "resolved" THEN outcome.state ELSE state
  /\ exited' = (outcome.status = "resolved" /\ outcome.shouldExit)
  /\ busy' = FALSE
  /\ input' = <<>>
  /\ deps' = NoDeps
  /\ outcome' = Idle(state')
  /\ calls' = NoCalls
  /\ UNCHANGED <<env, file, overrides, resolved, wizard>>

Next == Submit \/ Render

Spec == Init /\ [][Next]_vars

----------------------------------------------------------------------------
(* A session in which only command lines are typed (CommandSpec): every     *)
(* command of the catalog with valid, invalid and missing arguments.        *)

ToggleNames == {"explain", "check", "diff", "json", "tokens"}

ToggleArgs == {<<>>, sOn, sOff, <<"O", "N">>, <<"O", "f", "f">>}

\* '/name' or '/name arg'
CommandLine(name, arg) == sSlash \o name \o (IF arg = <<>> THEN <<>> ELSE sSp \o arg)

ToggleLines ==
  {CommandLine(CommandChars[c], a) : c \in ToggleNames, a \in ToggleArgs}
    \cup {CommandLine(<<"E", "X", "P", "L", "A", "I", "N">>, sOn)}

sMode == <<"/", "m", "o", "d", "e">>
sContext == <<"/", "c", "o", "n", "t", "e", "x", "t">>
sClear == <<"c", "l", "e", "a", "r">>

SettingLines ==
  { sProvider, sProvider \o sSp \o ProviderChars["anthropic"],
    sProvider \o sSp \o ProviderChars["openrouter"],
    sProvider \o sSp \o <<"A", "n", "t", "h", "r", "o", "p", "i", "c">>,
    sModel, sModel \o sSp \o sM1,
    sMode, sMode \o sSp \o ModeChars["button"], sMode \o sSp \o sOn,
    sContext, sContext \o sSp \o sHi, sContext \o sSp \o sClear }

PlainLines ==
  {sHelp, sQuit, <<"/", "s", "h", "o", "w">>, sMadeup, sSlash, sQuit \o sTab \o sHi,
   <<"/", "c", "o", "p", "y">> \o sSp \o sOn}

TypedCommands == ToggleLines \cup SettingLines \cup PlainLines

\* a command line is submitted and handled
TypeCommand ==
  /\ ~busy
  /\ ~exited
  /\ \E line \in TypedCommands :
       Call(line, NoDeps, handleSubmittedInput(line, state, overrides, env, file, NoDeps))

CommandNext == TypeCommand \/ Render

CommandSpec == Init /\ [][CommandNext]_vars


----------------------------------------------------------------------------
(* Config resolution on its own (ConfigSpec): the CLI flags, the config    *)
(* file and the environment are set in any order and resolveConfig is      *)
(* called after each change; resolved is what it returned.                 *)

sM2 == <<"m", "2">>
sM3 == <<"m", "3">>
sUrl1 == <<"u", "1">>
sUrl2 == <<"u", "2">>
sKey2 == <<"s", "k", "-", "2">>
FlagTimeout == 10000
FileTimeout == 5000

\* CliOverrides: --provider, --model, --timeout
CliFlags ==
  [provider : {None, Some(ProviderChars["openrouter"]), Some(<<"b", "a", "d">>)},
   model : {None, Some(sM1)},
   timeout : {None, Some(FlagTimeout)}]

\* the config file: unreadable or not JSON (None), or the parsed object
FileContents ==
  {None} \cup
  {Some([provider |-> p, model |-> m, timeoutMs |-> t[1], baseUrl |-> t[2]]) :
     p \in {None, Some(ProviderChars["anthropic"]), Some(<<"x">>)},
     m \in {None, Some(sM2)},
     t \in {<<None, None>>, <<Some(FileTimeout), Some(sUrl1)>>}}

\* the values each environment variable takes
EnvValues ==
  [v \in EnvVars |->
     CASE v = "GOVUK_REWRITE_PROVIDER" ->
            {None, Some(ProviderChars["anthropic"]), Some(<<"O", "p", "e", "n", "A", "I">>)}
       [] v = "GOVUK_REWRITE_MODEL" -> {None, Some(sM3)}
       [] v = "GOVUK_REWRITE_TIMEOUT_MS" ->
            {None, Some(<<"6", "0">>), Some(<<"a", "b", "c">>), Some(<<"5", "x">>)}
       [] v = "GOVUK_REWRITE_BASE_URL" -> {None, Some(sUrl2)}
       [] v = "OPENAI_API_KEY" -> {None, Some(sKey)}
       [] v = "ANTHROPIC_API_KEY" -> {None, Some(sKey2)}
       [] OTHER -> {None}]

ConfigInit ==
  /\ overrides = NoOverrides
  /\ file = None
  /\ env = [v \in EnvVars |-> None]
  /\ resolved = resolveConfig(overrides, file, env)
  /\ wizard = NoSetup
  /\ state = BootstrapState([spinner |-> TRUE, copy |-> FALSE, tokens |-> FALSE], resolved)
  /\ input = <<>>
  /\ deps = NoDeps
  /\ outcome = Idle(state)
  /\ calls = NoCalls
  /\ busy = FALSE
  /\ exited = FALSE

\* the program is started with other flags
SetFlags ==
  /\ \E cli \in CliFlags :
       /\ overrides' = cli
       /\ resolved' = resolveConfig(cli, file, env)
  /\ UNCHANGED <<state, env, file, input, deps, outcome, calls, busy, exited, wizard>>

\* the config file is replaced
WriteFile ==
  /\ \E f \in FileContents :
       /\ file' = f
       /\ resolved' = resolveConfig(overrides, f, env)
  /\ UNCHANGED <<state, env, overrides, input, deps, outcome, calls, busy, exited, wizard>>

\* one environment variable is set or unset
SetEnvVar ==
  /\ \E v \in EnvVars : \E x \in EnvValues[v] :
       /\ env' = [env EXCEPT ![v] = x]
       /\ resolved' = resolveConfig(overrides, file, env')
  /\ UNCHANGED <<state, file, overrides, input, deps, outcome, calls, busy, exited, wizard>>

ConfigNext == SetFlags \/ WriteFile \/ SetEnvVar

ConfigSpec == ConfigInit /\ [][ConfigNext]_vars


----------------------------------------------------------------------------
(* The setup command on its own (SetupSpec): runSetup at a terminal, the   *)
(* user typing one answer at a time.  deps.answers are the answers typed   *)
(* so far and wizard is where runSetup stands after them: waiting at a     *)
(* prompt ("hang"), returned ("ok") or thrown ("throw").                   *)

MaxAnswers == 7

\* what the user types at a prompt
SetupAnswers == {<<>>, <<" ", "y">>, ProviderChars["openrouter"], <<"5", "0">>}

\* the options of the setup command (index.ts passes the config path only)
SetupOptions(d) ==
  [stdinIsTTY |-> d.stdinIsTTY, stdoutIsTTY |-> d.stdoutIsTTY, preferredProvider |-> None,
   answers |-> d.answers, verifyFails |-> d.verifyFails, writeFails |-> d.writeFails]

SetupFiles ==
  {None, Some([provider |-> Some(ProviderChars["anthropic"]), model |-> None,
               timeoutMs |-> None, baseUrl |-> None])}

SetupInit ==
  /\ \E stdin \in BOOLEAN, verifyFails \in BOOLEAN, writeFails \in BOOLEAN :
       deps = [NoDeps EXCEPT !.stdinIsTTY = stdin, !.stdoutIsTTY = TRUE,
                             !.verifyFails = verifyFails, !.writeFails = writeFails]
  /\ file \in SetupFiles
  /\ wizard = runSetup(SetupOptions(deps), file)
  /\ overrides = NoOverrides
  /\ env = [v \in EnvVars |-> None]
  /\ resolved = resolveConfig(overrides, file, env)
  /\ state = BootstrapState([spinner |-> TRUE, copy |-> FALSE, tokens |-> FALSE], resolved)
  /\ input = <<>>
  /\ outcome = Idle(state)
  /\ calls = NoCalls
  /\ busy = FALSE
  /\ exited = FALSE

\* the user answers the prompt the wizard is waiting at
TypeAnswer ==
  /\ wizard.status = "hang"
  /\ Len(deps.answers) < MaxAnswers
  /\ \E a \in SetupAnswers :
       /\ deps' = [deps EXCEPT !.answers = Append(@, a)]
       /\ wizard' = runSetup(SetupOptions(deps'), file)
       /\ file' = IF wizard'.status = "ok" THEN writeConfigFile(file, wizard'.written[1])
                  ELSE file
  /\ UNCHANGED <<state, env, overrides, input, outcome, calls, busy, exited, resolved>>

SetupNext == TypeAnswer

SetupSpec == SetupInit /\ [][SetupNext]_vars


----------------------------------------------------------------------------
(* The setup offer on its own (OfferSpec): no API key is set, the offer    *)
(* is made and the user types one answer at a time, first to the offer's   *)
(* question and then to the wizard's.  outcome is where                    *)
(* maybeRunInteractiveSetupOnMissingKey stands after the answers typed so  *)
(* far and wizard where the wizard it started stands (NoSetup when it has  *)
(* started none); env and file are the process environment and the config  *)
(* file.                                                                   *)

MaxOfferAnswers == 7

\* the character U+001B
ESC == "ESC"

\* s as a terminal in bracketed-paste mode delivers it when it is pasted
PasteWrapped(s) ==
  <<ESC, "[", "2", "0", "0", "~">> \o s \o <<ESC, "[", "2", "0", "1", "~">>

OfferAnswers == {<<>>, sNo, sYes, PasteWrapped(sYes)}

OfferOptions(d, provider) ==
  [provider |-> provider, stdinIsTTY |-> d.stdinIsTTY, stdoutIsTTY |-> d.stdoutIsTTY,
   answers |-> d.answers, verifyFails |-> d.verifyFails, writeFails |-> d.writeFails]

\* the wizard the offer has started, if it has started one
OfferedSetup(o, f) ==
  IF /\ supportsInteractiveSetup(o.stdinIsTTY, o.stdoutIsTTY)
     /\ askYesNo(o.answers, "offer", TRUE).ok
     /\ askYesNo(o.answers, "offer", TRUE).value
  THEN setupImpl(o, f)
  ELSE NoSetup

OfferInit ==
  /\ \E stdin \in BOOLEAN, stdout \in BOOLEAN, writeFails \in BOOLEAN :
       deps = [NoDeps EXCEPT !.stdinIsTTY = stdin, !.stdoutIsTTY = stdout,
                             !.writeFails = writeFails]
  /\ file \in SetupFiles
  /\ overrides = NoOverrides
  /\ env = [v \in EnvVars |-> None]
  /\ resolved = resolveConfig(overrides, file, env)
  /\ outcome = maybeRunInteractiveSetupOnMissingKey(OfferOptions(deps, resolved.provider), env, file)
  /\ wizard = OfferedSetup(OfferOptions(deps, resolved.provider), file)
  /\ state = BootstrapState([spinner |-> TRUE, copy |-> FALSE, tokens |-> FALSE], resolved)
  /\ input = <<>>
  /\ calls = NoCalls
  /\ busy = FALSE
  /\ exited = FALSE

\* the user answers the prompt the offer or its wizard is waiting at
TypeOfferAnswer ==
  /\ outcome.status = "hang"
  /\ Len(deps.answers) < MaxOfferAnswers
  /\ \E a \in OfferAnswers :
       /\ deps' = [deps EXCEPT !.answers = Append(@, a)]
       /\ outcome' = maybeRunInteractiveSetupOnMissingKey(
                       OfferOptions(deps', resolved.provider), env, file)
       /\ wizard' = OfferedSetup(OfferOptions(deps', resolved.provider), file)
       /\ env' = outcome'.env
       /\ file' = outcome'.file
  /\ UNCHANGED <<state, overrides, input, calls, busy, exited, resolved>>

OfferNext == TypeOfferAnswer

OfferSpec == OfferInit /\ [][OfferNext]_vars


----------------------------------------------------------------------------
(* Chat bootstrap (session-config.ts, chat-session.ts).                    *)

ChatUsageError(message) == [name |-> "ChatUsageError", exitCode |-> Some(2), message |-> message]

ChatRuntimeError(message) ==
  [name |-> "ChatRuntimeError", exitCode |-> Some(1), message |-> message]

\* what a failing config writer throws
PlainError == [name |-> "Error", exitCode |-> None, message |-> <<>>]

\* Some(error) when validateChatOptions throws, None when it returns
validateChatOptions(opts) ==
  IF Truthy(opts.mode) /\ ~\E m \in Modes : ModeChars[m] = opts.mode[1]
  THEN Some(ChatUsageError(<< <<Lit("Error: invalid --mode \""), Val(opts.mode[1]),
                                Lit("\". Valid values: "), Lit("VALID_MODES")>> >>))
  ELSE IF Truthy(opts.provider) /\ ~\E p \in Providers : ProviderChars[p] = opts.provider[1]
  THEN Some(ChatUsageError(<< <<Lit("Error: invalid --provider \""), Val(opts.provider[1]),
                                Lit("\". Valid values: "), Lit("VALID_PROVIDERS")>> >>))
  ELSE None

createConfigOverrides(opts) ==
  [provider |-> opts.provider, model |-> opts.model, timeout |-> opts.timeout]

ConfigReturn(status, config, e, f, configResolver, setupRunner) ==
  [status |-> status, config |-> config, env |-> e, file |-> f,
   calls |-> [NoCalls EXCEPT !.configResolver = configResolver, !.setupRunner = setupRunner]]

\* after the setup runner: resolved anew whatever the runner reports
ReturnResolvingAnew(ov, first, autoSetup) ==
  IF autoSetup.status = "throw"
  THEN ConfigReturn("rejected", first, autoSetup.env, autoSetup.file, 1, 1)
  ELSE IF autoSetup.status = "hang"
  THEN ConfigReturn("hang", first, autoSetup.env, autoSetup.file, 1, 1)
  ELSE ConfigReturn("resolved", resolveConfig(ov, autoSetup.file, autoSetup.env),
                    autoSetup.env, autoSetup.file, 2, 1)

\* resolveConfigWithAutoSetup after the setup runner has settled with autoSetup
ReturnAfterAutoSetup(ov, first, autoSetup) ==
  IF autoSetup.status = "throw"
  THEN ConfigReturn("rejected", first, autoSetup.env, autoSetup.file, 1, 1)
  ELSE IF autoSetup.status = "hang"
  THEN ConfigReturn("hang", first, autoSetup.env, autoSetup.file, 1, 1)
  ELSE IF autoSetup.ran
  THEN ConfigReturn("resolved", resolveConfig(ov, autoSetup.file, autoSetup.env),
                    autoSetup.env, autoSetup.file, 2, 1)
  ELSE ConfigReturn("resolved", first, autoSetup.env, autoSetup.file, 1, 1)

\* resolveConfigWithAutoSetup once the config has been resolved for the first time
ReturnAfterFirstConfig(ov, e, f, d, first) ==
  IF Truthy(first.apiKey) THEN ConfigReturn("resolved", first, e, f, 1, 0)
  ELSE ReturnAfterAutoSetup(ov, first,
         maybeRunInteractiveSetupOnMissingKey(
           [provider |-> first.provider, stdinIsTTY |-> d.stdinIsTTY,
            stdoutIsTTY |-> d.stdoutIsTTY, answers |-> d.answers,
            verifyFails |-> d.verifyFails, writeFails |-> d.writeFails],
           e, f))

resolveConfigWithAutoSetup(ov, e, f, d) ==
  ReturnAfterFirstConfig(ov, e, f, d, resolveConfig(ov, f, e))

\* the mode of the new session: opts.mode ?? "page-body"
ModeOption(mode) ==
  IF ~IsSome(mode) THEN "page-body"
  ELSE IF \E m \in Modes : ModeChars[m] = mode[1]
  THEN CHOOSE m \in Modes : ModeChars[m] = mode[1]
  ELSE ""

Bootstrapped(status, error, st, config, e, f, c) ==
  [status |-> status, error |-> error, state |-> st, config |-> config, env |-> e,
   file |-> f, calls |-> c]

\* bootstrapChatSession once resolveConfigForChat has settled with r
BootstrapWithConfig(opts, r) ==
  IF r.status = "hang"
  THEN Bootstrapped("hang", None, None, None, r.env, r.file, r.calls)
  ELSE IF r.status = "rejected"
  THEN Bootstrapped("rejected", Some(PlainError), None, None, r.env, r.file, r.calls)
  ELSE IF ~Truthy(r.config.apiKey)
  THEN Bootstrapped("rejected",
         Some(ChatRuntimeError(buildMissingApiKeyErrorLines(r.config.provider))), None, None,
         r.env, r.file, r.calls)
  ELSE Bootstrapped("resolved", None,
         Some([BootstrapState(opts, r.config) EXCEPT !.mode = ModeOption(opts.mode)]),
         Some(r.config), r.env, r.file, r.calls)

\* a bootstrap that resolves the config before it validates the options
bootstrapChatSessionValidatingLast(opts, e, f, d) ==
  IF validateChatOptions(opts) # None
  THEN Bootstrapped("rejected", validateChatOptions(opts), None, None, e, f,
                    resolveConfigWithAutoSetup(createConfigOverrides(opts), e, f, d).calls)
  ELSE BootstrapWithConfig(opts, resolveConfigWithAutoSetup(createConfigOverrides(opts), e, f, d))

\* opts: the options of the chat command; e, f: environment and config file;
\* d: what the terminal, the user and the file system do when setup is offered
bootstrapChatSession(opts, e, f, d) ==
  IF validateChatOptions(opts) # None
  THEN Bootstrapped("rejected", validateChatOptions(opts), None, None, e, f, NoCalls)
  ELSE BootstrapWithConfig(opts, resolveConfigWithAutoSetup(createConfigOverrides(opts), e, f, d))

(* The chat command is invoked once (BootSpec): input is the options it    *)
(* was given, deps what the terminal, the user and the file system do if   *)
(* setup is offered, outcome what bootstrapChatSession settled with and    *)
(* calls what it called; env and file are read before the step and         *)
(* written by it.                                                          *)

NoChatOptions ==
  [mode |-> None, provider |-> None, model |-> None, timeout |-> None, spinner |-> TRUE,
   copy |-> FALSE, tokens |-> FALSE]

sBad == <<"b", "a", "d">>

ChatOptionSets ==
  {[NoChatOptions EXCEPT !.mode = m, !.provider = p] :
     m \in {None, Some(<<>>), Some(ModeChars["heading"]), Some(sBad)},
     p \in {None, Some(<<>>), Some(ProviderChars["anthropic"]), Some(sBad)}}

NoBootstrap == [status |-> "none", error |-> None, state |-> None, config |-> None]

BootEnvs ==
  {[v \in EnvVars |-> IF v = k THEN Some(sKey) ELSE None] :
     k \in {"", "OPENAI_API_KEY", "ANTHROPIC_API_KEY"}}

BootInit ==
  /\ env \in BootEnvs
  /\ file \in SetupFiles
  /\ overrides = NoOverrides
  /\ resolved = resolveConfig(overrides, file, env)
  /\ wizard = NoSetup
  /\ state = BootstrapState(NoChatOptions, resolved)
  /\ input = NoChatOptions
  /\ deps = NoDeps
  /\ outcome = NoBootstrap
  /\ calls = NoCalls
  /\ busy = FALSE
  /\ exited = FALSE

\* one bootstrapChatSession call, from the invocation to the settled promise r
Launch(opts, d, r) ==
  /\ r.status \in {"resolved", "rejected"}
  /\ r.calls.setupRunner = 0 => d = NoDeps
  /\ input' = opts
  /\ overrides' = createConfigOverrides(opts)
  /\ deps' = d
  /\ env' = r.env
  /\ file' = r.file
  /\ outcome' = [status |-> r.status, error |-> r.error, state |-> r.state, config |-> r.config]
  /\ calls' = r.calls
  /\ state' = IF r.status = "resolved" THEN r.state[1] ELSE state
  /\ resolved' = IF r.status = "resolved" THEN r.config[1] ELSE resolved
  /\ busy' = TRUE
  /\ UNCHANGED <<exited, wizard>>

InvokeChat ==
  /\ ~busy
  /\ \E opts \in ChatOptionSets, d \in {NoDeps} \cup SetupScenarios :
       Launch(opts, d, bootstrapChatSession(opts, env, file, d))

BootNext == InvokeChat

BootSpec == BootInit /\ [][BootNext]_vars


----------------------------------------------------------------------------
(* The output formatter on its own (OutputSpec): the output flags are      *)
(* switched and the original and the rewritten text are typed a character  *)
(* at a time; input is the flags and the two texts, outcome the mode       *)
(* selectOutputMode returns for the flags and the diff diffLines returns   *)
(* for the texts.                                                          *)

MaxTextLen == 3

TextChars == {"a", "+", "\n"}

FlagNames == {"json", "check", "diff", "explain"}

Formatted(inp) ==
  [mode |-> selectOutputMode(inp.flags), diff |-> diffLinesText(inp.original, inp.rewritten)]

OutputInit ==
  /\ input = [flags |-> [n \in FlagNames |-> FALSE], original |-> <<>>, rewritten |-> <<>>]
  /\ outcome = Formatted(input)
  /\ overrides = NoOverrides
  /\ file = None
  /\ env = [v \in EnvVars |-> None]
  /\ resolved = resolveConfig(overrides, file, env)
  /\ wizard = NoSetup
  /\ state = BootstrapState([spinner |-> TRUE, copy |-> FALSE, tokens |-> FALSE], resolved)
  /\ deps = NoDeps
  /\ calls = NoCalls
  /\ busy = FALSE
  /\ exited = FALSE

Reformat ==
  /\ outcome' = Formatted(input')
  /\ UNCHANGED <<state, env, file, overrides, deps, calls, busy, exited, resolved, wizard>>

SwitchFlag ==
  /\ \E n \in FlagNames : input' = [input EXCEPT !.flags[n] = ~@]
  /\ Reformat

TypeOriginal ==
  /\ Len(input.original) < MaxTextLen
  /\ \E c \in TextChars : input' = [input EXCEPT !.original = Append(@, c)]
  /\ Reformat

TypeRewritten ==
  /\ Len(input.rewritten) < MaxTextLen
  /\ \E c \in TextChars : input' = [input EXCEPT !.rewritten = Append(@, c)]
  /\ Reformat

OutputNext == SwitchFlag \/ TypeOriginal \/ TypeRewritten

OutputSpec == OutputInit /\ [][OutputNext]_vars


----------------------------------------------------------------------------
(* Rewrite engine (core: validation.ts, engine.ts, providers/openai.ts).    *)
(* A JavaScript number is a finite value held in thousandths, NaN or an    *)
(* infinity.                                                               *)

Finite(thousandths) == [kind |-> "finite", thousandths |-> thousandths]
NotANumber == [kind |-> "NaN", thousandths |-> 0]
PlusInfinity == [kind |-> "Infinity", thousandths |-> 0]

\* Number.isFinite
IsFinite(x) == x.kind = "finite"

\* Math.trunc of a finite number, as an integer
Trunc(x) ==
  IF x.thousandths >= 0 THEN x.thousandths \div 1000 ELSE -((-x.thousandths) \div 1000)

Thrown(name, message) == [status |-> "throw", name |-> name, message |-> message, value |-> None]

Returned(value) == [status |-> "ok", name |-> "", message |-> <<>>, value |-> Some(value)]

\* the rest of normaliseEngineOptions for a resolved number that takes the
\* default also for 0
NormalisedTimeoutOrDefault(options, apiKey, model, timeoutMs) ==
  IF IsFinite(timeoutMs) /\ timeoutMs.thousandths = 0
  THEN Returned([provider |-> options.provider, apiKey |-> apiKey, model |-> model,
                 timeoutMs |-> DEFAULT_TIMEOUT_MS,
                 baseUrl |-> IF IsSome(options.baseUrl) /\ Trim(options.baseUrl[1]) # <<>>
                             THEN Some(Trim(options.baseUrl[1])) ELSE None])
  ELSE IF ~IsFinite(timeoutMs) \/ timeoutMs.thousandths <= 0
  THEN Thrown("Error", <<Lit("timeoutMs must be a positive number")>>)
  ELSE Returned([provider |-> options.provider, apiKey |-> apiKey, model |-> model,
                 timeoutMs |-> Trunc(timeoutMs),
                 baseUrl |-> IF IsSome(options.baseUrl) /\ Trim(options.baseUrl[1]) # <<>>
                             THEN Some(Trim(options.baseUrl[1])) ELSE None])

\* the rest of normaliseEngineOptions once key, model and timeout are resolved
NormalisedTimeout(options, apiKey, model, timeoutMs) ==
  IF ~IsFinite(timeoutMs) \/ timeoutMs.thousandths <= 0
  THEN Thrown("Error", <<Lit("timeoutMs must be a positive number")>>)
  ELSE Returned([provider |-> options.provider, apiKey |-> apiKey, model |-> model,
                 timeoutMs |-> Trunc(timeoutMs),
                 baseUrl |-> IF IsSome(options.baseUrl) /\ Trim(options.baseUrl[1]) # <<>>
                             THEN Some(Trim(options.baseUrl[1])) ELSE None])

\* options: [provider, apiKey, model, timeoutMs, baseUrl], all but provider optional
normaliseEngineOptions(options) ==
  IF ~(IsSome(options.apiKey) /\ Trim(options.apiKey[1]) # <<>>)
  THEN Thrown("Error", <<Lit("Missing apiKey for provider \""), Lit(options.provider), Lit("\"")>>)
  ELSE IF ~(IsSome(options.model) /\ Trim(options.model[1]) # <<>>)
          /\ DEFAULT_MODELS[options.provider] = <<>>
  THEN Thrown("Error", <<Lit("Missing model for provider \""), Lit(options.provider), Lit("\"")>>)
  ELSE NormalisedTimeout(options, Trim(options.apiKey[1]),
         IF IsSome(options.model) /\ Trim(options.model[1]) # <<>>
         THEN Trim(options.model[1]) ELSE DEFAULT_MODELS[options.provider],
         IF IsSome(options.timeoutMs) THEN options.timeoutMs[1]
         ELSE Finite(1000 * DEFAULT_TIMEOUT_MS))

\* What the network does to one request of the adapter.
\* fetch: "resolve", "abort" (the timer fired) or "reject" (transport failure);
\* ok, status: the response's; body: "unparseable" (response.json() throws),
\* "no choices" (JSON without a choices array) or "choices";
\* error: the body's error.message, if any; content: choices[0].message.content
\* as None (null or no first choice), "" , "not json" or "json".
Net(fetch, ok, status, body, error, content) ==
  [fetch |-> fetch, ok |-> ok, status |-> status, body |-> body, error |-> error,
   content |-> content]

\* the adapter once fetch has resolved and the body has been parsed
openaiParsed(net) ==
  IF ~net.ok
  THEN IF IsSome(net.error) THEN Thrown("Error", <<Val(net.error[1])>>)
       ELSE Thrown("Error", <<Lit("OpenAI API error: "), Num(net.status)>>)
  ELSE IF net.body = "no choices"
  THEN Thrown("TypeError", <<Lit("Cannot read properties of undefined (reading '0')")>>)
  ELSE IF ~IsSome(net.content) \/ net.content[1] = ""
  THEN Thrown("Error", <<Lit("OpenAI returned an empty response")>>)
  ELSE IF net.content[1] = "not json"
  THEN Thrown("Error", <<Lit("OpenAI returned malformed JSON")>>)
  ELSE Returned("parsed")

\* providers/openai.ts rewrite(options, request) against a network that does net
openaiRewrite(options, net) ==
  IF net.fetch = "abort"
  THEN Thrown("Error", <<Lit("Request timed out after "), Num(options.timeoutMs), Lit("ms")>>)
  ELSE IF net.fetch = "reject"
  THEN Thrown("Error", <<Lit("Network error: "), Lit("detail")>>)
  ELSE IF net.body = "unparseable"
  THEN Thrown("SyntaxError", <<Lit("Unexpected token < in JSON at position 0")>>)
  ELSE openaiParsed(net)

(* The engine on its own (EngineSpec): the caller sets the engine options  *)
(* one at a time and input is the options as they stand; outcome.normalised *)
(* is what normaliseEngineOptions returns or throws for them.  With        *)
(* normalised options for openai the adapter is called; deps is then what  *)
(* the network did and outcome.call what the adapter settled with.         *)

NoEngineOptions ==
  [provider |-> "openai", apiKey |-> None, model |-> None, timeoutMs |-> None, baseUrl |-> None]

EngineOptionValues ==
  [provider |-> Providers,
   apiKey |-> {None, Some(<<>>), Some(<<" ">>), Some(<<" ", "k", " ">>)},
   model |-> {None, Some(<<" ">>), Some(<<" ", "m", "1">>)},
   timeoutMs |-> {None, Some(Finite(0)), Some(Finite(500)), Some(Finite(-1000)),
                  Some(Finite(1500)), Some(NotANumber), Some(PlusInfinity)},
   baseUrl |-> {None, Some(<<" ">>), Some(<<"u", " ">>)}]

NoCall == [status |-> "none", name |-> "", message |-> <<>>, value |-> None]

NetOutcomes ==
  { Net("abort", FALSE, 0, "", None, None),
    Net("reject", FALSE, 0, "", None, None) }
    \cup { Net("resolve", ok, IF ok THEN 200 ELSE 502, "unparseable", None, None) :
             ok \in BOOLEAN }
    \cup { Net("resolve", FALSE, 401, "no choices", error, None) :
             error \in {None, Some(<<"n", "o">>)} }
    \cup { Net("resolve", TRUE, 200, "no choices", None, None) }
    \cup { Net("resolve", TRUE, 200, "choices", None, content) :
             content \in {None, Some(""), Some("not json"), Some("json")} }

EngineInit ==
  /\ input = NoEngineOptions
  /\ outcome = [normalised |-> normaliseEngineOptions(input), call |-> NoCall]
  /\ deps = NoDeps
  /\ overrides = NoOverrides
  /\ file = None
  /\ env = [v \in EnvVars |-> None]
  /\ resolved = resolveConfig(overrides, file, env)
  /\ wizard = NoSetup
  /\ state = BootstrapState([spinner |-> TRUE, copy |-> FALSE, tokens |-> FALSE], resolved)
  /\ calls = NoCalls
  /\ busy = FALSE
  /\ exited = FALSE

\* the caller changes one option; the options are normalised anew
SetOption ==
  /\ \/ \E v \in EngineOptionValues.provider : input' = [input EXCEPT !.provider = v]
     \/ \E v \in EngineOptionValues.apiKey : input' = [input EXCEPT !.apiKey = v]
     \/ \E v \in EngineOptionValues.model : input' = [input EXCEPT !.model = v]
     \/ \E v \in EngineOptionValues.timeoutMs : input' = [input EXCEPT !.timeoutMs = v]
     \/ \E v \in EngineOptionValues.baseUrl : input' = [input EXCEPT !.baseUrl = v]
  /\ outcome' = [normalised |-> normaliseEngineOptions(input'), call |-> NoCall]
  /\ deps' = NoDeps
  /\ UNCHANGED <<state, env, file, overrides, calls, busy, exited, resolved, wizard>>

\* engine.ts rewrite: the adapter is called with the normalised options
CallAdapter ==
  /\ outcome.normalised.status = "ok"
  /\ outcome.normalised.value[1].provider = "openai"
  /\ outcome.call = NoCall
  /\ \E net \in NetOutcomes :
       /\ deps' = net
       /\ outcome' = [outcome EXCEPT !.call = openaiRewrite(outcome.normalised.value[1], net)]
  /\ UNCHANGED <<state, env, file, overrides, input, calls, busy, exited, resolved, wizard>>

EngineNext == SetOption \/ CallAdapter

EngineSpec == EngineInit /\ [][EngineNext]_vars


----------------------------------------------------------------------------
(* Ink front end (chat-ink.ts, chat-ui.tsx).                               *)

BRACKETED_PASTE_ENABLE == "\\u001b[?2004h"
BRACKETED_PASTE_DISABLE == "\\u001b[?2004l"

supportsInteractiveSession(stdinIsTTY, stdoutIsTTY) == stdinIsTTY /\ stdoutIsTTY

Written(data) == [effect |-> "writeStdout", data |-> data]
RenderedApp == [effect |-> "renderApp", data |-> ""]

\* runChatInk up to its await: app is "thrown" or "running", log what it did
runChatInkStart(stdinIsTTY, stdoutIsTTY, renderThrows) ==
  IF ~supportsInteractiveSession(stdinIsTTY, stdoutIsTTY)
  THEN [app |-> "thrown", error |-> Some(ChatUsageError(
          << <<Lit("Error: interactive mode requires a TTY for stdin and stdout.")>> >>)),
        log |-> <<>>]
  ELSE IF renderThrows
  THEN [app |-> "thrown", error |-> Some(PlainError),
        log |-> <<Written(BRACKETED_PASTE_ENABLE), Written(BRACKETED_PASTE_DISABLE)>>]
  ELSE [app |-> "running", error |-> None,
        log |-> <<Written(BRACKETED_PASTE_ENABLE), RenderedApp>>]

\* an ending that restores the terminal only when the app exits cleanly
runChatInkEndNoFinally(log, exitThrows) ==
  IF exitThrows THEN [app |-> "thrown", error |-> Some(PlainError), log |-> log]
  ELSE [app |-> "returned", error |-> None,
        log |-> Append(log, Written(BRACKETED_PASTE_DISABLE))]

\* runChatInk from the settling of app.waitUntilExit() on
runChatInkEnd(log, exitThrows) ==
  IF exitThrows
  THEN [app |-> "thrown", error |-> Some(PlainError),
        log |-> Append(log, Written(BRACKETED_PASTE_DISABLE))]
  ELSE [app |-> "returned", error |-> None,
        log |-> Append(log, Written(BRACKETED_PASTE_DISABLE))]

\* what handleSubmit does with a submitted line when busy is not looked at
handleSubmitIgnoringBusy(promptRequest, session, isBusy, rawValue) ==
  IF promptRequest THEN "answer"
  ELSE IF ~session THEN "discard"
  ELSE IF Trim(rawValue) = <<>> THEN "empty"
  ELSE IF Trim(rawValue) = <<"?">> THEN "help"
  ELSE "dispatch"

\* what handleSubmit does with a submitted line: it answers the pending
\* prompt, discards the line, toggles the help or dispatches the line
handleSubmit(promptRequest, session, isBusy, rawValue) ==
  IF promptRequest THEN "answer"
  ELSE IF ~session \/ isBusy THEN "discard"
  ELSE IF Trim(rawValue) = <<>> THEN "empty"
  ELSE IF Trim(rawValue) = <<"?">> THEN "help"
  ELSE "dispatch"

(* The chat front end (UiSpec).  outcome is the front end: app is where     *)
(* runChatInk stands, error what it threw, log what it wrote and rendered,  *)
(* in order, session whether the                                           *)
(* bootstrap has set the session, bootstrapping whether the bootstrap is   *)
(* in flight, inFlight the number of handleSubmittedInput calls in flight, *)
(* last what handleSubmit did with the last line.  busy is the busy flag,  *)
(* state the session state, input the text of the call in flight and deps  *)
(* what its dependencies do, deps.answers the prompt answers typed so far. *)

MaxPromptAnswers == 3

UiLines ==
  {<<>>, sNo, sHi, <<"?">>, sQuit, sProvider \o sSp \o ProviderChars["anthropic"]}

UiRewrites ==
  { [kind |-> "ok", variant |-> "changed", usage |-> TRUE, message |-> ""],
    [kind |-> "throw", variant |-> "", usage |-> FALSE, message |-> "fetch failed"] }

Ui(app, log, session, bootstrapping, inFlight, last, showHelp, exitCode) ==
  [app |-> app, error |-> None, log |-> log, session |-> session,
   bootstrapping |-> bootstrapping, inFlight |-> inFlight, last |-> last,
   showHelp |-> showHelp, exitCode |-> exitCode]

UiInit ==
  /\ \E stdin \in BOOLEAN, stdout \in BOOLEAN :
       deps = [NoDeps EXCEPT !.stdinIsTTY = stdin, !.stdoutIsTTY = stdout]
  /\ env \in BootEnvs
  /\ file = None
  /\ overrides = NoOverrides
  /\ resolved = resolveConfig(overrides, file, env)
  /\ wizard = NoSetup
  /\ state = BootstrapState(NoChatOptions, resolved)
  /\ input = <<>>
  /\ outcome = Ui("idle", <<>>, FALSE, FALSE, 0, "none", FALSE, None)
  /\ calls = NoCalls
  /\ busy = FALSE
  /\ exited = FALSE

\* the bootstrap or the handleSubmittedInput call in flight, as far as the
\* answers typed so far take it
InFlightStatus ==
  IF outcome.bootstrapping
  THEN bootstrapChatSession(NoChatOptions, env, file, deps).status
  ELSE IF busy
  THEN handleSubmittedInput(input, state, overrides, env, file, deps).status
  ELSE "none"

\* a prompt of the setup offer or of the wizard is on the screen
PromptPending == InFlightStatus = "hang"

\* runChatInk is called; the mounted ChatUI starts the bootstrap
RunChatInk ==
  /\ outcome.app = "idle"
  /\ \E renderThrows \in BOOLEAN :
       outcome' = [outcome EXCEPT
         !.app = runChatInkStart(deps.stdinIsTTY, deps.stdoutIsTTY, renderThrows).app,
         !.error = runChatInkStart(deps.stdinIsTTY, deps.stdoutIsTTY, renderThrows).error,
         !.log = runChatInkStart(deps.stdinIsTTY, deps.stdoutIsTTY, renderThrows).log,
         !.bootstrapping =
            runChatInkStart(deps.stdinIsTTY, deps.stdoutIsTTY, renderThrows).app = "running"]
  /\ UNCHANGED <<state, env, file, overrides, input, deps, calls, busy, exited, resolved, wizard>>

\* the bootstrap settles with r: the session is set, or the app is told to exit
BootstrapSettled(r) ==
  /\ r.status \in {"resolved", "rejected"}
  /\ env' = r.env
  /\ file' = r.file
  /\ state' = IF r.status = "resolved" THEN r.state[1] ELSE state
  /\ resolved' = IF r.status = "resolved" THEN r.config[1] ELSE resolved
  /\ exited' = (r.status = "rejected")
  /\ outcome' = [outcome EXCEPT !.bootstrapping = FALSE, !.session = (r.status = "resolved"),
                                !.exitCode = IF r.status = "resolved" THEN None
                                             ELSE IF r.error[1].exitCode # None
                                             THEN r.error[1].exitCode ELSE Some(1)]
  /\ deps' = [deps EXCEPT !.answers = <<>>]
  /\ UNCHANGED <<overrides, input, calls, busy, wizard>>

BootstrapSettles ==
  /\ outcome.app = "running"
  /\ ~exited
  /\ outcome.bootstrapping
  /\ BootstrapSettled(bootstrapChatSession(NoChatOptions, env, file, deps))

\* handleSubmit for a submitted line, up to its await
Submitted_(rawValue, branch) ==
  /\ branch = "answer" => Len(deps.answers) < MaxPromptAnswers
  /\ outcome' = [outcome EXCEPT
       !.last = branch,
       !.showHelp = IF branch = "help" THEN ~@ ELSE @,
       !.inFlight = IF branch = "dispatch" THEN @ + 1 ELSE @]
  /\ busy' = (busy \/ branch = "dispatch")
  /\ input' = IF branch = "dispatch" THEN Trim(rawValue) ELSE input
  /\ IF branch = "answer" THEN deps' = [deps EXCEPT !.answers = Append(@, rawValue)]
     ELSE IF branch = "dispatch"
     THEN \E rw \in UiRewrites \cup {NoDeps.rewrite} :
            /\ (rw.kind = "none") = IsCommandInput(Trim(rawValue))
            /\ deps' = [deps EXCEPT !.answers = <<>>, !.rewrite = rw]
     ELSE deps' = deps
  /\ UNCHANGED <<state, env, file, overrides, calls, exited, resolved, wizard>>

SubmitLine ==
  /\ outcome.app = "running"
  /\ ~exited
  /\ \E rawValue \in UiLines :
       Submitted_(rawValue, handleSubmit(PromptPending, outcome.session, busy, rawValue))

\* the call in flight settles with r; the front end takes its result over
CallSettled(r) ==
  /\ r.status \in {"resolved", "rejected"}
  /\ state' = IF r.status = "resolved" THEN r.state ELSE state
  /\ env' = r.env
  /\ file' = r.file
  /\ calls' = r.calls
  /\ exited' = (r.status = "resolved" /\ r.shouldExit)
  /\ busy' = FALSE
  /\ outcome' = [outcome EXCEPT !.inFlight = @ - 1,
                                !.exitCode = IF r.status = "resolved" /\ r.shouldExit
                                             THEN Some(0) ELSE @]
  /\ deps' = [deps EXCEPT !.answers = <<>>, !.rewrite = NoDeps.rewrite]
  /\ UNCHANGED <<overrides, input, resolved, wizard>>

Settle ==
  /\ outcome.app = "running"
  /\ ~exited
  /\ busy
  /\ CallSettled(handleSubmittedInput(input, state, overrides, env, file, deps))

\* Ctrl+C or Ctrl+D
PressCtrlC ==
  /\ outcome.app = "running"
  /\ ~exited
  /\ exited' = TRUE
  /\ outcome' = [outcome EXCEPT !.exitCode = Some(0)]
  /\ UNCHANGED <<state, env, file, overrides, input, deps, calls, busy, resolved, wizard>>

\* app.waitUntilExit() settles and runChatInk ends
AppExits ==
  /\ outcome.app = "running"
  /\ exited
  /\ \E exitThrows \in BOOLEAN :
       outcome' = [outcome EXCEPT !.app = runChatInkEnd(outcome.log, exitThrows).app,
                                  !.error = runChatInkEnd(outcome.log, exitThrows).error,
                                  !.log = runChatInkEnd(outcome.log, exitThrows).log]
  /\ UNCHANGED <<state, env, file, overrides, input, deps, calls, busy, exited, resolved, wizard>>

UiNext == RunChatInk \/ BootstrapSettles \/ SubmitLine \/ Settle \/ PressCtrlC \/ AppExits

UiSpec == UiInit /\ [][UiNext]_vars


----------------------------------------------------------------------------
(* A chat session from its bootstrap on (SessionSpec): the chat command is *)
(* started with some options, environment and config file, and Init is the *)
(* session bootstrapChatSession resolved with.  Then lines are submitted    *)
(* one at a time, as under Spec.                                           *)

\* the timeouts the three tiers supply: none, a valid one, zero and a negative one
SessionStarts ==
  {[opts |-> [NoChatOptions EXCEPT !.copy = copy, !.tokens = tokens],
    env |-> [v \in EnvVars |-> IF v = "OPENAI_API_KEY" THEN Some(sKey) ELSE None],
    file |-> None] : copy \in BOOLEAN, tokens \in BOOLEAN}
  \cup
  {[opts |-> NoChatOptions,
    env |-> [v \in EnvVars |-> IF v = "OPENAI_API_KEY" THEN Some(sKey)
                               ELSE IF v = "GOVUK_REWRITE_TIMEOUT_MS" THEN t ELSE None],
    file |-> None] : t \in {Some(<<"6", "0">>), Some(<<"0">>), Some(<<"-", "5">>)}}
  \cup
  {[opts |-> [NoChatOptions EXCEPT !.timeout = t],
    env |-> [v \in EnvVars |-> IF v = "OPENAI_API_KEY" THEN Some(sKey) ELSE None],
    file |-> None] : t \in {Some(FlagTimeout), Some(0), Some(-5)}}
  \cup
  {[opts |-> NoChatOptions,
    env |-> [v \in EnvVars |-> IF v = "OPENAI_API_KEY" THEN Some(sKey) ELSE None],
    file |-> Some([provider |-> None, model |-> None, timeoutMs |-> t, baseUrl |-> None])] :
     t \in {Some(FileTimeout), Some(0)}}
  \cup
  {[opts |-> [NoChatOptions EXCEPT !.provider = Some(ProviderChars["anthropic"])],
    env |-> [v \in EnvVars |-> None],
    file |-> None]}

\* what is typed in the session
SessionInputs ==
  { sHi, sCheck \o sSp \o sOn, sModel \o sSp \o sM1,
    sProvider \o sSp \o ProviderChars["anthropic"],
    sCheck \o sSp \o sOff \o sLf \o sHi, sCheck \o sTab \o sOff \o sLf \o sHi }

\* the bootstrap has resolved with r: the session starts
SessionStarted(s, r) ==
  /\ r.status = "resolved"
  /\ overrides = createConfigOverrides(s.opts)
  /\ env = r.env
  /\ file = r.file
  /\ resolved = r.config[1]
  /\ state = r.state[1]
  /\ outcome = Idle(r.state[1])

SessionInit ==
  /\ \E s \in SessionStarts, d \in {NoDeps, Tty(ScriptKeyOnly), Tty(ScriptVerify)} :
       /\ d # NoDeps => ~Truthy(resolveConfig(createConfigOverrides(s.opts), s.file, s.env).apiKey)
       /\ SessionStarted(s, bootstrapChatSession(s.opts, s.env, s.file, d))
  /\ wizard = NoSetup
  /\ input = <<>>
  /\ deps = NoDeps
  /\ calls = NoCalls
  /\ busy = FALSE
  /\ exited = FALSE

SubmitInSession ==
  /\ ~busy
  /\ ~exited
  /\ \E inp \in SessionInputs, d \in Deps :
       /\ Reachable(inp, d)
       /\ Call(inp, d, handleSubmittedInput(inp, state, overrides, env, file, d))

SessionNext == SubmitInSession \/ Render

SessionSpec == SessionInit /\ [][SessionNext]_vars


----------------------------------------------------------------------------
(* Properties.  While busy, state is the state the call was given, input   *)
(* its text, deps what its dependencies did, calls what it called and      *)
(* outcome what it settled with.                                           *)

CountKind(events, kind) == Cardinality({i \in 1..Len(events) : events[i].kind = kind})

HasPiece(text, piece) == \E i \in 1..Len(text) : text[i] = piece

LineBreaks == {"\n", "\r"}

HasLineBreak(s) == \E i \in 1..Len(s) : s[i] \in LineBreaks

\* the characters before the first line break
TextBeforeBreak(s) ==
  IF HasLineBreak(s)
  THEN SubSeq(s, 1, MinOf({i \in 1..Len(s) : s[i] \in LineBreaks}) - 1)
  ELSE s

\* line is '/', a word of the catalog in any case, and then nothing or white space
NamesCommand(line, word) ==
  LET l == ToLowerCase(TrimStart(line))
  IN  /\ StartsWith(l, <<"/">> \o word)
      /\ (Len(l) = Len(word) + 1 \/ l[Len(word) + 2] \in WS)

NamesKnownCommand(line) == \E i \in 1..Len(CommandNames) : NamesCommand(line, CommandChars[CommandNames[i]])

ExpectCommand(inp) ==
  IF HasLineBreak(inp) THEN NamesKnownCommand(TextBeforeBreak(inp))
  ELSE StartsWith(Trim(inp), <<"/">>)

\* C1: a non-empty input with a line break goes to the command processor iff its
\* first line is '/' and a known command name in any case, and then only that
\* line is applied; one without a line break goes there iff it starts with '/';
\* every other input is never applied as a command and, when the rewrite call
\* is made, is its text, whole and trimmed.
C1_Classification ==
  (busy /\ Trim(input) # <<>>) =>
     IF ExpectCommand(input)
     THEN /\ calls.applyChatCommand = 1
          /\ calls.resolveApiKey = 0 /\ calls.rewriteImpl = 0
          /\ calls.commandInput = Trim(TextBeforeBreak(input))
     ELSE /\ calls.applyChatCommand = 0
          /\ calls.resolveApiKey >= 1
          /\ calls.rewriteImpl = 1 => calls.rewriteText = Trim(input)

C1_Witness ==
  /\ busy
  /\ input = sQuit \o sLf \o sHi
  /\ calls.applyChatCommand = 1
  /\ calls.commandInput = sQuit
  /\ outcome.shouldExit

\* C2: an input whose trimmed, normalised form is one line starting with '/' is
\* handled by the command processor and never reaches the rewrite path.
C2_TrimBeforeClassifying ==
  (busy /\ ~HasLineBreak(Trim(input)) /\ StartsWith(Trim(input), <<"/">>)) =>
     calls.applyChatCommand = 1 /\ calls.resolveApiKey = 0 /\ calls.rewriteImpl = 0

\* C3: an input that is empty after trimming yields no event, no exit, the
\* state it was given and no call of any dependency.
C3_EmptyInputNoOp ==
  (busy /\ \A i \in 1..Len(input) : input[i] \in WS) =>
     /\ outcome.status = "resolved"
     /\ outcome.events = <<>>
     /\ ~outcome.shouldExit
     /\ outcome.state = state
     /\ calls = NoCalls

C3_Witness ==
  /\ busy
  /\ input = <<" ", "\t", "\n">>
  /\ outcome.status = "resolved"
  /\ outcome.events = <<>>

\* C4: shouldExit is true only for an input routed to the command processor
\* whose command name is quit.
C4_ExitOnlyOnQuit ==
  (busy /\ outcome.shouldExit) =>
     /\ calls.applyChatCommand = 1
     /\ calls.rewriteImpl = 0
     /\ NamesCommand(calls.commandInput, <<"q", "u", "i", "t">>)
     /\ ~HasPiece(outcome.events[1].text, UnknownCommandMessage[1])

C4_Witness ==
  /\ busy
  /\ input = sQuitUpper
  /\ outcome.shouldExit

RewriteSucceeded == busy /\ calls.rewriteImpl = 1 /\ deps.rewrite.kind = "ok"

SameAfterNormalising(a, b) == Trim(normalizeLineEndings(a)) = Trim(normalizeLineEndings(b))

Rewritten == RewriteResult(deps.rewrite, calls.rewriteText).rewrittenText

C6_CheckModeAlwaysAssistant ==
  (RewriteSucceeded /\ state.check) =>
     /\ CountKind(outcome.events, "assistant") = 1
     /\ CountKind(outcome.events, "success") = 0

C6_Witness ==
  /\ RewriteSucceeded
  /\ state.check
  /\ Rewritten = input
  /\ CountKind(outcome.events, "assistant") = 1

RewriteThrew == busy /\ calls.rewriteImpl = 1 /\ deps.rewrite.kind = "throw"

\* C7: when the rewrite call throws, the call resolves with exactly one error
\* event, 'Error: ' and the message, no assistant or success event and
\* shouldExit false, and the session then accepts the next input.
C7_RewriteErrorKeepsSession ==
  /\ [](RewriteThrew =>
          /\ outcome.status = "resolved"
          /\ CountKind(outcome.events, "error") = 1
          /\ \E i \in 1..Len(outcome.events) :
               outcome.events[i] = Event("error", <<Lit("Error: "), Lit(deps.rewrite.message)>>)
          /\ CountKind(outcome.events, "assistant") = 0
          /\ CountKind(outcome.events, "success") = 0
          /\ ~outcome.shouldExit)
  /\ [][RewriteThrew => (~busy' /\ ~exited')]_vars

C7_Witness ==
  /\ RewriteThrew
  /\ deps.rewrite.message = "fetch failed"
  /\ CountKind(outcome.events, "error") = 1

SetupDeclinedOrUnavailable ==
  /\ busy
  /\ calls.setupRunner = 1
  /\ \/ ~(deps.stdinIsTTY /\ deps.stdoutIsTTY)
     \/ deps.answers \in {<<sNo>>, <<<<"x">>, <<"n">>>>}

ErrorTexts == {outcome.events[i].text : i \in {k \in 1..Len(outcome.events) : outcome.events[k].kind = "error"}}

\* C8: no key for the state's provider and setup declined or unavailable: no
\* rewrite call, no exit, and error events that name the provider's
\* environment variable and give the export instruction.
C8_MissingKeyErrors ==
  (SetupDeclinedOrUnavailable /\ ~Truthy(env[keyMap[state.provider]])) =>
     /\ outcome.status = "resolved"
     /\ calls.rewriteImpl = 0
     /\ ~outcome.shouldExit
     /\ ErrorTexts # {}
     /\ \E t \in ErrorTexts :
          \E i \in 1..Len(t) - 1 :
             t[i] = Lit("  export ") /\ t[i + 1] = Lit(keyMap[state.provider])

C8_Witness ==
  /\ SetupDeclinedOrUnavailable
  /\ deps.answers = <<sNo>>
  /\ state.provider = "anthropic"
  /\ \E t \in ErrorTexts : HasPiece(t, Lit("ANTHROPIC_API_KEY"))

\* C9: handleSubmittedInput never rejects; every failure becomes an error event
\* of a call that resolves with shouldExit false.
C9_NeverRejects ==
  busy => (outcome.status = "resolved" /\ (calls.setupRunner = 1 /\ deps.writeFails =>
                                             CountKind(outcome.events, "error") >= 1))

ProviderCommand(x) ==
  /\ busy
  /\ calls.applyChatCommand = 1
  /\ input \in {sProvider \o sSp \o ProviderChars[x], sProvider \o sSp \o sSp \o ProviderChars[x]}

\* C10: '/provider x' for a valid x yields provider x and the default model of
\* x, whatever the prior model and provider, and one message naming both.
C10_ProviderResetsModel ==
  \A x \in Providers :
     ProviderCommand(x) =>
        /\ outcome.state.provider = x
        /\ outcome.state.model = DEFAULT_MODELS[x]
        /\ outcome.state = [state EXCEPT !.provider = x, !.model = DEFAULT_MODELS[x]]
        /\ Len(outcome.events) = 1
        /\ HasPiece(outcome.events[1].text, Lit(x))
        /\ HasPiece(outcome.events[1].text, Val(DEFAULT_MODELS[x]))
        /\ ~outcome.shouldExit

C10_Witness ==
  /\ ProviderCommand("openai")
  /\ state.provider = "openai"
  /\ state.model = sM1
  /\ outcome.state.model = DEFAULT_MODELS["openai"]

----------------------------------------------------------------------------
(* Properties of the command processor, checked under CommandSpec: while   *)
(* busy, input is the command line typed, state the state it was applied   *)
(* to and outcome what the call returned.                                  *)

\* the place of the first space of s, Len(s) + 1 when it has none
FirstSpaceAt(s) ==
  IF \E i \in 1..Len(s) : s[i] = " " THEN MinOf({i \in 1..Len(s) : s[i] = " "}) ELSE Len(s) + 1

\* the command word of a typed line: what follows the slash up to the first space
TypedWord(line) == ToLowerCase(SubSeq(Trim(line), 2, FirstSpaceAt(Trim(line)) - 1))

\* its argument: the rest of the line, trimmed
TypedArg(line) == Trim(SubSeq(Trim(line), FirstSpaceAt(Trim(line)) + 1, Len(Trim(line))))

CommandApplied == busy /\ calls.applyChatCommand = 1

IsToggleWord(w) == \E c \in ToggleNames : CommandChars[c] = w

IsUsageError(line) ==
  LET w == TypedWord(line)
      a == TypedArg(line)
  IN  \/ w \notin KNOWN_CHAT_COMMANDS
      \/ w = CommandChars["provider"] /\ a \notin {ProviderChars[p] : p \in Providers}
      \/ w = CommandChars["mode"] /\ a \notin {ModeChars[m] : m \in Modes}
      \/ w \in {CommandChars["model"], CommandChars["context"]} /\ a = <<>>
      \/ IsToggleWord(w) /\ a \notin {sOn, sOff}

\* C12: a command line with an unknown command name, an invalid provider or
\* mode, an empty /model or /context argument or a toggle argument other than
\* on/off returns the state unchanged, quit false and exactly one message.
C12_UsageErrorOneMessage ==
  (CommandApplied /\ IsUsageError(input)) =>
     /\ outcome.status = "resolved"
     /\ outcome.state = state
     /\ ~outcome.shouldExit
     /\ Len(outcome.events) = 1

C12_Witness ==
  /\ CommandApplied
  /\ input = sContext
  /\ IsSome(state.context)
  /\ state.explain
  /\ outcome.state = state
  /\ Len(outcome.events) = 1

\* C13: for explain, check, diff, json and tokens, 'on' sets exactly that flag
\* to true and 'off' to false, every other field keeps its value, and an
\* argument in another case ('ON', 'Off') leaves the flag as it was.
C13_ToggleSetsOneFlag ==
  \A c \in ToggleNames :
     (CommandApplied /\ TypedWord(input) = CommandChars[c]) =>
        /\ TypedArg(input) = sOn => outcome.state = [state EXCEPT ![c] = TRUE]
        /\ TypedArg(input) = sOff => outcome.state = [state EXCEPT ![c] = FALSE]
        /\ TypedArg(input) \notin {sOn, sOff} => outcome.state = state

C13_Witness ==
  /\ CommandApplied
  /\ input = CommandLine(CommandChars["tokens"], sOn)
  /\ ~state.tokens
  /\ state.explain
  /\ state.mode = "button"
  /\ outcome.state = [state EXCEPT !.tokens = TRUE]


----------------------------------------------------------------------------
(* Properties of the config resolver, checked under ConfigSpec: resolved   *)
(* is resolveConfig of overrides (the CLI flags), file and env.            *)

\* o is set to the name of a provider
IsProviderName(o) == IsSome(o) /\ o[1] \in {ProviderChars[p] : p \in Providers}

ProviderNamed(o) == CHOOSE p \in Providers : ProviderChars[p] = o[1]

\* o is set to a non-empty string
Given(o) == IsSome(o) /\ o[1] # <<>>

\* a field of the config file, unset when there is no readable file
FileField(name) == IF IsSome(file) THEN file[1][name] ELSE None

IsDigit(c) == c \in {"0", "1", "2", "3", "4", "5", "6", "7", "8", "9"}

\* o is set to a string of decimal digits
IsDecimal(o) == Given(o) /\ \A i \in 1..Len(o[1]) : IsDigit(o[1][i])

RECURSIVE DecimalValue(_)
DecimalValue(s) ==
  IF s = <<>> THEN 0 ELSE 10 * DecimalValue(SubSeq(s, 1, Len(s) - 1)) + DigitVal[s[Len(s)]]

EnvProvider == env["GOVUK_REWRITE_PROVIDER"]
EnvModel == env["GOVUK_REWRITE_MODEL"]
EnvTimeout == env["GOVUK_REWRITE_TIMEOUT_MS"]
EnvBaseUrl == env["GOVUK_REWRITE_BASE_URL"]

\* C14: defaults, config file, environment, CLI flags is the merge order: for
\* provider, model, timeout and baseUrl a valid value of a tier is the resolved
\* value when no higher tier sets one, whatever the lower tiers set.
C14_MergePrecedence ==
  /\ IsProviderName(overrides.provider) => resolved.provider = ProviderNamed(overrides.provider)
  /\ (overrides.provider = None /\ IsProviderName(EnvProvider)) =>
        resolved.provider = ProviderNamed(EnvProvider)
  /\ (overrides.provider = None /\ EnvProvider = None /\ IsProviderName(FileField("provider"))) =>
        resolved.provider = ProviderNamed(FileField("provider"))
  /\ (overrides.provider = None /\ EnvProvider = None /\ FileField("provider") = None) =>
        resolved.provider = "openai"
  /\ Given(overrides.model) => resolved.model = overrides.model[1]
  /\ (overrides.model = None /\ Given(EnvModel)) => resolved.model = EnvModel[1]
  /\ (overrides.model = None /\ EnvModel = None /\ Given(FileField("model"))) =>
        resolved.model = FileField("model")[1]
  /\ IsSome(overrides.timeout) => resolved.timeoutMs = overrides.timeout[1]
  /\ (overrides.timeout = None /\ IsDecimal(EnvTimeout)) =>
        resolved.timeoutMs = DecimalValue(EnvTimeout[1])
  /\ (overrides.timeout = None /\ EnvTimeout = None /\ IsSome(FileField("timeoutMs"))) =>
        resolved.timeoutMs = FileField("timeoutMs")[1]
  /\ (overrides.timeout = None /\ EnvTimeout = None /\ FileField("timeoutMs") = None) =>
        resolved.timeoutMs = 30000
  /\ Given(EnvBaseUrl) => resolved.baseUrl = EnvBaseUrl
  /\ (EnvBaseUrl = None /\ Given(FileField("baseUrl"))) => resolved.baseUrl = FileField("baseUrl")
  /\ (EnvBaseUrl = None /\ FileField("baseUrl") = None) => resolved.baseUrl = None

\* every tier sets every field to a different valid value
C14_Witness ==
  /\ overrides = [provider |-> Some(ProviderChars["openrouter"]), model |-> Some(sM1),
                  timeout |-> Some(FlagTimeout)]
  /\ EnvProvider = Some(ProviderChars["anthropic"])
  /\ EnvModel = Some(sM3)
  /\ EnvTimeout = Some(<<"6", "0">>)
  /\ EnvBaseUrl = Some(sUrl2)
  /\ file = Some([provider |-> Some(ProviderChars["anthropic"]), model |-> Some(sM2),
                  timeoutMs |-> Some(FileTimeout), baseUrl |-> Some(sUrl1)])
  /\ resolved.provider = "openrouter"
  /\ resolved.model = sM1
  /\ resolved.timeoutMs = FlagTimeout
  /\ resolved.baseUrl = Some(sUrl2)


NoModelSupplied ==
  ~Given(overrides.model) /\ ~Given(EnvModel) /\ ~Given(FileField("model"))

\* the model of the highest tier that supplies one
SuppliedModel ==
  IF Given(overrides.model) THEN overrides.model[1]
  ELSE IF Given(EnvModel) THEN EnvModel[1]
  ELSE FileField("model")[1]

\* C15: the resolved model is the default model of the resolved provider when
\* no tier supplied a model, and otherwise the model of the highest tier that
\* supplied one, unchanged, also when a higher tier set another provider.
C15_DefaultModelOnlyWhenUnset ==
  /\ NoModelSupplied => resolved.model = DEFAULT_MODELS[resolved.provider]
  /\ ~NoModelSupplied => resolved.model = SuppliedModel

\* the file sets anthropic and a model, the CLI flag switches to openrouter
C15_Witness ==
  /\ overrides.provider = Some(ProviderChars["openrouter"])
  /\ overrides.model = None
  /\ EnvModel = None
  /\ IsSome(file)
  /\ file[1].provider = Some(ProviderChars["anthropic"])
  /\ file[1].model = Some(sM2)
  /\ resolved.provider = "openrouter"
  /\ resolved.model = sM2


\* the environment variable that holds the key of provider p
KeyVarOf(p) ==
  CASE p = "openai" -> "OPENAI_API_KEY"
    [] p = "anthropic" -> "ANTHROPIC_API_KEY"
    [] p = "openrouter" -> "OPENROUTER_API_KEY"

\* C16: the resolved apiKey is the value of the resolved provider's own
\* environment variable, absent when that variable is unset even if another
\* provider's key is set; a resolution after a change of the config file or of
\* the CLI flags that leaves the resolved provider the same returns the same
\* apiKey.
C16_ApiKeyFromEnvOnly ==
  /\ [](resolved.apiKey = env[KeyVarOf(resolved.provider)])
  /\ [][(env' = env /\ resolved'.provider = resolved.provider) =>
          resolved'.apiKey = resolved.apiKey]_vars

\* openrouter is resolved from the flags while only the other keys are set
C16_Witness ==
  /\ resolved.provider = "openrouter"
  /\ env["OPENAI_API_KEY"] = Some(sKey)
  /\ env["ANTHROPIC_API_KEY"] = Some(sKey2)
  /\ IsSome(file)
  /\ overrides.model = Some(sM1)
  /\ resolved.apiKey = None


StripSign(s) == IF s # <<>> /\ s[1] \in {"+", "-"} THEN Tail(s) ELSE s

\* o is set and starts, after white space and a sign, with a digit
LeadsWithInteger(o) ==
  /\ Given(o)
  /\ StripSign(TrimStart(o[1])) # <<>>
  /\ IsDigit(StripSign(TrimStart(o[1]))[1])

\* o is set, but not to the name of a provider
UnknownProvider(o) == IsSome(o) /\ ~IsProviderName(o)

\* the provider of the config file, openai when it names none
FileOrDefaultProvider ==
  IF IsProviderName(FileField("provider")) THEN ProviderNamed(FileField("provider")) ELSE "openai"

\* the timeout of the config file, the default when it sets none
FileOrDefaultTimeout ==
  IF IsSome(FileField("timeoutMs")) THEN FileField("timeoutMs")[1] ELSE 30000

\* C17: the resolved provider is always one of openai, anthropic, openrouter;
\* an unrecognised provider string in the CLI flags, the environment or the
\* config file and an environment timeout that is no number are ignored, so
\* that the next lower tier decides; an unreadable or malformed config file
\* contributes nothing.
C17_InvalidValuesIgnored ==
  /\ resolved.provider \in Providers
  /\ UnknownProvider(overrides.provider) =>
        resolved.provider = IF IsProviderName(EnvProvider) THEN ProviderNamed(EnvProvider)
                            ELSE FileOrDefaultProvider
  /\ (UnknownProvider(EnvProvider) /\ ~IsProviderName(overrides.provider)) =>
        resolved.provider = FileOrDefaultProvider
  /\ (UnknownProvider(FileField("provider")) /\ ~IsProviderName(overrides.provider)
        /\ ~IsProviderName(EnvProvider)) => resolved.provider = "openai"
  /\ (Given(EnvTimeout) /\ ~LeadsWithInteger(EnvTimeout) /\ overrides.timeout = None) =>
        resolved.timeoutMs = FileOrDefaultTimeout
  /\ file = None =>
        /\ (~IsProviderName(overrides.provider) /\ ~IsProviderName(EnvProvider)) =>
              resolved.provider = "openai"
        /\ (overrides.timeout = None /\ ~LeadsWithInteger(EnvTimeout)) =>
              resolved.timeoutMs = 30000
        /\ (~Given(overrides.model) /\ ~Given(EnvModel)) =>
              resolved.model = DEFAULT_MODELS[resolved.provider]
        /\ ~Given(EnvBaseUrl) => resolved.baseUrl = None

\* both higher tiers name no provider and the environment timeout is no
\* number: the file decides both
C17_Witness ==
  /\ overrides.provider = Some(<<"b", "a", "d">>)
  /\ EnvProvider = Some(<<"O", "p", "e", "n", "A", "I">>)
  /\ EnvTimeout = Some(<<"a", "b", "c">>)
  /\ overrides.timeout = None
  /\ IsSome(file)
  /\ file[1].provider = Some(ProviderChars["anthropic"])
  /\ file[1].timeoutMs = Some(FileTimeout)
  /\ resolved.provider = "anthropic"
  /\ resolved.timeoutMs = FileTimeout



----------------------------------------------------------------------------
(* Claims about the setup wizard, checked under SetupSpec.  The i-th       *)
(* answer typed answers the i-th prompt shown, wizard.asked[i].            *)

\* the positions at which question q was put and an answer typed
AnsweredAt(q) ==
  {i \in 1..Len(deps.answers) : i <= Len(wizard.asked) /\ wizard.asked[i] = q}

\* the last answer typed to question q, trimmed
AnswerTo(q) == IF AnsweredAt(q) = {} THEN <<>> ELSE Trim(deps.answers[MaxOf(AnsweredAt(q))])

\* an optional text field typed at question q
TextAnswer(q) == IF AnswerTo(q) = <<>> THEN None ELSE Some(AnswerTo(q))

\* C18: whatever is typed, the object handed to the config writer has the
\* keys provider, model, timeoutMs and baseUrl and no other, each holding
\* what was typed at its own question; what was typed at the API key
\* question is in the returned result only, and the file holds exactly the
\* object written.
C18_OnlyNonSecretFieldsWritten ==
  /\ wizard.written # None =>
       /\ DOMAIN wizard.written[1] = {"provider", "model", "timeoutMs", "baseUrl"}
       /\ \E p \in Providers : wizard.written[1].provider = Some(ProviderChars[p])
       /\ AnswerTo("provider") # <<>> => wizard.written[1].provider = Some(AnswerTo("provider"))
       /\ wizard.written[1].model = TextAnswer("model")
       /\ wizard.written[1].baseUrl = TextAnswer("baseUrl")
       /\ wizard.written[1].timeoutMs =
            IF AnswerTo("timeout") = <<>> THEN None ELSE Some(DecimalValue(AnswerTo("timeout")))
       /\ wizard.apiKey = TextAnswer("apiKey")
       /\ file = wizard.written
  /\ wizard.written = None => wizard.apiKey = None

C18_Witness ==
  /\ wizard.status = "ok"
  /\ wizard.written # None
  /\ wizard.apiKey = Some(<<"y">>)
  /\ AnswerTo("model") = ProviderChars["openrouter"]
  /\ wizard.written[1].timeoutMs = Some(50)



\* the verification question has been answered with a yes
AskedVerification == AnswerTo("verify") \in {<<"y">>, <<"y", "e", "s">>}

\* the verification question has been answered with a yes, a no or nothing
AnsweredAll ==
  /\ AnsweredAt("verify") # {}
  /\ AnswerTo("verify") \in {<<>>, <<"y">>, <<"y", "e", "s">>, <<"n">>, <<"n", "o">>}

\* C19: the wizard makes at most one rewrite call, and makes one exactly
\* when the user said yes to verification and typed a non-empty API key;
\* once every question is answered the wizard has written the config and
\* returned ran = true whether or not that call failed (unless the write
\* itself fails), and the file is written in one step only, the one in
\* which the wizard returns.
C19_VerifyOnceThenWrite ==
  /\ [](/\ wizard.verifyCalls \in {0, 1}
        /\ (wizard.verifyCalls = 1) = (AskedVerification /\ AnswerTo("apiKey") # <<>>)
        /\ (AnsweredAll /\ ~deps.writeFails) =>
             /\ wizard.status = "ok"
             /\ wizard.ran
             /\ wizard.written # None
             /\ file = wizard.written)
  /\ [][file' # file => wizard.status = "hang" /\ wizard'.status = "ok"]_vars

C19_Witness ==
  /\ deps.verifyFails
  /\ wizard.verifyCalls = 1
  /\ wizard.ran
  /\ file = wizard.written
  /\ \E l \in 1..Len(wizard.lines) : wizard.lines[l] = <<Lit("Verification failed: "), Lit("message")>>



SetupQuestions == <<"provider", "model", "timeout", "baseUrl", "apiKey", "verify">>

\* the place of question q in the wizard's order
QuestionRank(q) == CHOOSE r \in 1..Len(SetupQuestions) : SetupQuestions[r] = q

\* answer a, as typed, is one that question q accepts
AcceptedBy(q, a) ==
  CASE q = "provider" ->
         Trim(a) = <<>> \/ \E p \in Providers : ProviderChars[p] = ToLowerCase(Trim(a))
    [] q = "timeout" ->
         Trim(a) = <<>>
           \/ ((\A i \in 1..Len(Trim(a)) : IsDigit(Trim(a)[i])) /\ DecimalValue(Trim(a)) > 0)
    [] q = "verify" ->
         ToLowerCase(Trim(a)) \in {<<>>, <<"y">>, <<"y", "e", "s">>, <<"n">>, <<"n", "o">>}
    [] OTHER -> TRUE

\* C20: at a terminal the first prompt is the provider question; after an
\* answer the question accepts, the next prompt is the next question of the
\* order provider, model, timeout, base URL, API key, verification (none
\* after verification), and after an answer it does not accept the next
\* prompt is the same question again; every answer typed has a prompt, a
\* waiting wizard has one prompt more, and the config is written only when
\* each of the six questions has had an answer it accepts.  Without a
\* terminal nothing is asked.
C20_QuestionsInOrder ==
  /\ ~(deps.stdinIsTTY /\ deps.stdoutIsTTY) => wizard.asked = <<>> /\ wizard.written = None
  /\ (deps.stdinIsTTY /\ deps.stdoutIsTTY) =>
       /\ wizard.asked # <<>>
       /\ wizard.asked[1] = "provider"
       /\ Len(wizard.asked) = Len(deps.answers) + (IF wizard.status = "hang" THEN 1 ELSE 0)
       /\ \A i \in 1..Len(deps.answers) :
            IF ~AcceptedBy(wizard.asked[i], deps.answers[i])
            THEN i < Len(wizard.asked) /\ wizard.asked[i + 1] = wizard.asked[i]
            ELSE IF wizard.asked[i] = "verify"
            THEN i = Len(wizard.asked) /\ wizard.status # "hang"
            ELSE /\ i < Len(wizard.asked)
                 /\ wizard.asked[i + 1] = SetupQuestions[QuestionRank(wizard.asked[i]) + 1]
       /\ wizard.written # None =>
            \A r \in 1..Len(SetupQuestions) :
              \E i \in 1..Len(deps.answers) :
                wizard.asked[i] = SetupQuestions[r] /\ AcceptedBy(SetupQuestions[r], deps.answers[i])

C20_Witness ==
  /\ wizard.status = "ok"
  /\ wizard.written # None
  /\ wizard.asked = <<"provider", "provider", "model", "timeout", "baseUrl", "apiKey", "verify">>
  /\ ~AcceptedBy("provider", deps.answers[1])



----------------------------------------------------------------------------
(* Claims about the setup offer, checked under OfferSpec.                  *)

AtTerminal == deps.stdinIsTTY /\ deps.stdoutIsTTY

\* how the offer's question takes an answer: "yes", "no" or "again"
OfferReply(a) ==
  IF ToLowerCase(Trim(a)) \in {<<>>, <<"y">>, <<"y", "e", "s">>} THEN "yes"
  ELSE IF ToLowerCase(Trim(a)) \in {<<"n">>, <<"n", "o">>} THEN "no"
  ELSE "again"

\* the user's reply to the offer is r: the first answer typed that is not
\* asked again
Replied(r) ==
  \E i \in 1..Len(deps.answers) :
    /\ OfferReply(deps.answers[i]) = r
    /\ \A j \in 1..(i - 1) : OfferReply(deps.answers[j]) = "again"

\* C21: away from a terminal the offer returns ran = false at once, with no
\* prompt, no line written and no wizard; a reply of n or no returns
\* ran = false without a wizard; an empty reply, like y and yes, starts the
\* wizard; the wizard is started at most once, and ran says that it
\* returned; the process environment changes in exactly the step in which
\* the wizard returns an API key, and then only by that key being set under
\* the provider's variable.
C21_OfferOutcome ==
  /\ [](/\ ~AtTerminal =>
             /\ outcome.status = "ok" /\ ~outcome.ran /\ ~outcome.apiKeySet
             /\ outcome.lines = <<>> /\ outcome.setupCalls = 0
             /\ deps.answers = <<>> /\ wizard = NoSetup
        /\ (AtTerminal /\ Replied("no")) =>
             /\ outcome.status = "ok" /\ ~outcome.ran /\ ~outcome.apiKeySet
             /\ outcome.setupCalls = 0 /\ wizard = NoSetup
        /\ (AtTerminal /\ Replied("yes")) => outcome.setupCalls = 1 /\ wizard # NoSetup
        /\ (AtTerminal /\ ~Replied("yes") /\ ~Replied("no")) =>
             outcome.status = "hang" /\ outcome.setupCalls = 0 /\ wizard = NoSetup
        /\ outcome.setupCalls \in {0, 1}
        /\ outcome.ran = (wizard.status = "ok")
        /\ outcome.apiKeySet = (wizard.status = "ok" /\ wizard.apiKey # None)
        /\ ~outcome.ran => env = [v \in EnvVars |-> None])
  /\ [][(env' # env) = (wizard'.status = "ok" /\ wizard'.apiKey # None)]_vars
  /\ [][env' # env => env' = [env EXCEPT ![wizard'.envVarName] = wizard'.apiKey]]_vars

C21_Witness ==
  /\ AtTerminal
  /\ deps.answers # <<>>
  /\ deps.answers[1] = <<>>
  /\ outcome.ran
  /\ outcome.apiKeySet
  /\ env[wizard.envVarName] = wizard.apiKey
  /\ wizard.apiKey = Some(sYes)



PasteStart == <<ESC, "[", "2", "0", "0", "~">>
PasteEnd == <<ESC, "[", "2", "0", "1", "~">>

\* a without the bracketed-paste markers around it
Unwrapped(a) ==
  IF /\ Len(a) >= Len(PasteStart) + Len(PasteEnd)
     /\ SubSeq(a, 1, Len(PasteStart)) = PasteStart
     /\ SubSeq(a, Len(a) - Len(PasteEnd) + 1, Len(a)) = PasteEnd
  THEN SubSeq(a, Len(PasteStart) + 1, Len(a) - Len(PasteEnd))
  ELSE a

\* the reply to the offer read without paste markers
RepliedUnwrapped(r) ==
  \E i \in 1..Len(deps.answers) :
    /\ OfferReply(Unwrapped(deps.answers[i])) = r
    /\ \A j \in 1..(i - 1) : OfferReply(Unwrapped(deps.answers[j])) = "again"

\* C22: an answer wrapped in bracketed-paste markers is taken as the text
\* inside them: a wrapped y typed at the offer starts the wizard like a bare
\* y, and the API key the wizard returns holds no marker.
C22_PasteMarkersStripped ==
  /\ (AtTerminal /\ RepliedUnwrapped("yes")) => outcome.setupCalls = 1
  /\ (wizard.status = "ok" /\ wizard.apiKey # None) =>
       \A i \in 1..Len(wizard.apiKey[1]) : wizard.apiKey[1][i] # ESC



----------------------------------------------------------------------------
(* Claims about the chat bootstrap, checked under BootSpec: once busy,     *)
(* input is the options given, outcome what the bootstrap settled with.    *)

\* the options passed validation, so the config was resolved
ConfigWasResolved == busy /\ calls.configResolver > 0

\* the setup offer was accepted at a terminal and its wizard saved the config
SetupRan == AtTerminal /\ Replied("yes") /\ ~deps.writeFails

\* C23: the setup runner is called once when the config resolved first, from
\* the environment and file as they were, has no API key, and not called
\* when it has one; the config is resolved twice when setup ran and once
\* when it did not; the config returned is the one that the overrides, the
\* file and the environment give after the call.
C23_ResolveOfferResolve ==
  /\ [][calls'.configResolver > 0 =>
          calls'.setupRunner =
            IF resolveConfig(overrides', file, env).apiKey = None THEN 1 ELSE 0]_vars
  /\ [](ConfigWasResolved =>
          /\ calls.configResolver = IF calls.setupRunner = 1 /\ SetupRan THEN 2 ELSE 1
          /\ outcome.status = "resolved" =>
               outcome.config = Some(resolveConfig(overrides, file, env)))

C23_Witness ==
  /\ ConfigWasResolved
  /\ calls.setupRunner = 1
  /\ calls.configResolver = 2
  /\ outcome.status = "resolved"
  /\ outcome.config[1].apiKey = Some(sKey)
  /\ outcome.config[1].provider = "openrouter"



\* option o is given a non-empty value that is not one of the spellings
InvalidOption(o, spellings) == o # None /\ o[1] # <<>> /\ o[1] \notin spellings

InvalidChatOptions ==
  \/ InvalidOption(input.mode, {ModeChars[m] : m \in Modes})
  \/ InvalidOption(input.provider, {ProviderChars[p] : p \in Providers})

\* the setup offer was accepted and its wizard failed to save the config
SetupThrew == calls.setupRunner = 1 /\ AtTerminal /\ Replied("yes") /\ deps.writeFails

Rejected(name, exitCode) ==
  /\ outcome.status = "rejected"
  /\ outcome.error # None
  /\ outcome.error[1].name = name
  /\ outcome.error[1].exitCode = Some(exitCode)
  /\ outcome.state = None

----------------------------------------------------------------------------
(* Claims about the output formatter, checked under OutputSpec.            *)

FlagOrder == <<"json", "check", "diff", "explain">>

\* the places in FlagOrder of the flags that are set
FlagsSet == {i \in 1..Len(FlagOrder) : input.flags[FlagOrder[i]]}

\* C25: for every combination of json, check, diff and explain the mode
\* selected is the mode of the first flag set in the order json, check,
\* diff, explain, and plain when no flag is set.
C25_FirstFlagWins ==
  /\ outcome.mode \in {"json", "check", "diff", "explain", "plain"}
  /\ outcome.mode = IF FlagsSet = {} THEN "plain"
                    ELSE FlagOrder[CHOOSE i \in FlagsSet : \A k \in FlagsSet : i <= k]

C25_Witness ==
  /\ input.flags["check"] /\ input.flags["explain"] /\ input.flags["json"]
  /\ ~input.flags["diff"]
  /\ outcome.mode = "json"

\* the lines of s from position k on
RECURSIVE LinesFrom(_, _)
LinesFrom(s, k) ==
  IF \A i \in k..Len(s) : s[i] # "\n" THEN <<SubSeq(s, k, Len(s))>>
  ELSE <<SubSeq(s, k, (CHOOSE n \in k..Len(s) :
                         s[n] = "\n" /\ \A i \in k..(n - 1) : s[i] # "\n") - 1)>>
         \o LinesFrom(s, (CHOOSE n \in k..Len(s) :
                            s[n] = "\n" /\ \A i \in k..(n - 1) : s[i] # "\n") + 1)

DiffPrefixes == {<<" ", " ">>, <<"+", " ">>, <<"-", " ">>}

\* the lines of the diff that do not start with prefix, without their prefixes
DiffWithout(prefix) ==
  LET kept == SelectSeq(LinesFrom(outcome.diff, 1), LAMBDA l : SubSeq(l, 1, 2) # prefix)
  IN  [i \in 1..Len(kept) |-> SubSeq(kept[i], 3, Len(kept[i]))]

\* C26: every line of the diff starts with "  ", "+ " or "- "; the lines
\* that are not added, without their prefixes, are the lines of the original
\* in order, and the lines that are not removed are the lines of the
\* rewritten text in order.
C26_DiffRoundTrip ==
  /\ \A i \in 1..Len(LinesFrom(outcome.diff, 1)) :
       /\ Len(LinesFrom(outcome.diff, 1)[i]) >= 2
       /\ SubSeq(LinesFrom(outcome.diff, 1)[i], 1, 2) \in DiffPrefixes
  /\ DiffWithout(<<"+", " ">>) = LinesFrom(input.original, 1)
  /\ DiffWithout(<<"-", " ">>) = LinesFrom(input.rewritten, 1)

C26_Witness ==
  /\ input.original = <<"a", "\n", "+">>
  /\ input.rewritten = <<"\n", "a", "\n">>
  /\ LinesFrom(outcome.diff, 1) = << <<"+", " ">>, <<" ", " ", "a">>, <<"-", " ", "+">>, <<"+", " ">> >>



----------------------------------------------------------------------------
(* Claims about the rewrite engine, checked under EngineSpec.              *)

\* option o is absent or holds white space only
Blank(o) == o = None \/ \A i \in 1..Len(o[1]) : o[1][i] \in WS

\* s without the white space around it
Inner(s) ==
  SubSeq(s, CHOOSE i \in 1..Len(s) : s[i] \notin WS /\ \A j \in 1..(i - 1) : s[j] \in WS,
            CHOOSE i \in 1..Len(s) : s[i] \notin WS /\ \A j \in (i + 1)..Len(s) : s[j] \in WS)

\* the timeout given is NaN, infinite, zero or negative
BadTimeout ==
  /\ input.timeoutMs # None
  /\ input.timeoutMs[1].kind # "finite" \/ input.timeoutMs[1].thousandths <= 0

NormaliseThrew(text) ==
  /\ outcome.normalised.status = "throw"
  /\ outcome.normalised.message[1] = Lit(text)

\* C27: with a key that is absent or blank normaliseEngineOptions throws
\* the missing-apiKey error whatever the other options are; with a key it
\* throws the timeout error exactly when the timeout given is not finite or
\* not above 0 (0 itself included), and otherwise returns the trimmed key,
\* the trimmed model or, for a model absent or blank, the provider's
\* default, the whole part of the timeout or, for a timeout absent, 30000,
\* and the trimmed base URL or, for a blank one, none.
C27_NormalisedOptions ==
  /\ Blank(input.apiKey) => NormaliseThrew("Missing apiKey for provider \"")
  /\ (~Blank(input.apiKey) /\ BadTimeout) => NormaliseThrew("timeoutMs must be a positive number")
  /\ (~Blank(input.apiKey) /\ ~BadTimeout) =>
       /\ outcome.normalised.status = "ok"
       /\ outcome.normalised.value[1].provider = input.provider
       /\ outcome.normalised.value[1].apiKey = Inner(input.apiKey[1])
       /\ outcome.normalised.value[1].model =
            IF Blank(input.model) THEN DEFAULT_MODELS[input.provider]
            ELSE Inner(input.model[1])
       /\ outcome.normalised.value[1].timeoutMs =
            IF input.timeoutMs = None THEN DEFAULT_TIMEOUT_MS
            ELSE input.timeoutMs[1].thousandths \div 1000
       /\ outcome.normalised.value[1].baseUrl =
            IF Blank(input.baseUrl) THEN None ELSE Some(Inner(input.baseUrl[1]))

C27_Witness ==
  /\ ~Blank(input.apiKey)
  /\ input.timeoutMs = Some(Finite(0))
  /\ input.model = Some(<<" ">>)
  /\ input.provider = "anthropic"
  /\ NormaliseThrew("timeoutMs must be a positive number")

\* the messages of the adapter's normalised errors
NormalisedMessage(message) ==
  \/ message = <<Lit("Request timed out after "), Num(outcome.normalised.value[1].timeoutMs), Lit("ms")>>
  \/ Len(message) = 2 /\ message[1] = Lit("Network error: ")
  \/ message = <<Lit("OpenAI API error: "), Num(deps.status)>>
  \/ deps.error # None /\ message = <<Val(deps.error[1])>>
  \/ message = <<Lit("OpenAI returned an empty response")>>
  \/ message = <<Lit("OpenAI returned malformed JSON")>>

\* C28: a failed adapter call fails with an Error that carries one of the
\* normalised messages, and for a response with a non-2xx status the message
\* is the backend's or the one naming the status, whatever the body is.
C28_NormalisedErrors ==
  outcome.call.status = "throw" =>
    /\ outcome.call.name = "Error"
    /\ NormalisedMessage(outcome.call.message)
    /\ (deps.fetch = "resolve" /\ ~deps.ok) =>
         outcome.call.message =
           IF deps.error # None THEN <<Val(deps.error[1])>>
           ELSE <<Lit("OpenAI API error: "), Num(deps.status)>>



\* the data runChatInk wrote to the terminal, in order
WritesOf(log) == SelectSeq(log, LAMBDA e : e.effect = "writeStdout")

\* the positions of the log at which the app was rendered
RendersOf(log) == {i \in 1..Len(log) : log[i].effect = "renderApp"}

UiIsTTY == deps.stdinIsTTY /\ deps.stdoutIsTTY

\* C29: when stdin or stdout is not a TTY, runChatInk throws a ChatUsageError
\* having written nothing and rendered nothing; otherwise its first effect is
\* the write of the bracketed-paste enable sequence, made before the app is
\* rendered, nothing but that is written while the app runs, and when
\* runChatInk has ended, by returning or by throwing, its last effect is the
\* write of the bracketed-paste disable sequence
C29_PasteModeBracketsTheApp ==
  /\ outcome.app = "idle" => outcome.log = <<>>
  /\ outcome.app # "idle" /\ ~UiIsTTY =>
       /\ outcome.app = "thrown"
       /\ outcome.error # None
       /\ outcome.error[1].name = "ChatUsageError"
       /\ outcome.log = <<>>
  /\ outcome.app # "idle" /\ UiIsTTY =>
       /\ outcome.log # <<>>
       /\ outcome.log[1] = [effect |-> "writeStdout", data |-> "\\u001b[?2004h"]
       /\ \A i \in RendersOf(outcome.log) : i > 1
       /\ Cardinality(RendersOf(outcome.log)) <= 1
  /\ outcome.app = "running" =>
       WritesOf(outcome.log) = <<[effect |-> "writeStdout", data |-> "\\u001b[?2004h"]>>
  /\ outcome.app \in {"returned", "thrown"} /\ UiIsTTY =>
       /\ outcome.log[Len(outcome.log)] = [effect |-> "writeStdout", data |-> "\\u001b[?2004l"]
       /\ WritesOf(outcome.log) = <<[effect |-> "writeStdout", data |-> "\\u001b[?2004h"],
                                    [effect |-> "writeStdout", data |-> "\\u001b[?2004l"]>>

\* the rendered app exited with an error and runChatInk threw it on
C29_Witness ==
  /\ outcome.app = "thrown"
  /\ UiIsTTY
  /\ RendersOf(outcome.log) # {}
  /\ outcome.error # None
  /\ outcome.error[1].name = "Error"

----------------------------------------------------------------------------
(* Claims about whole sessions, checked under SessionSpec.  While busy,    *)
(* state is the state the call was given, outcome what it settled with.    *)

CopiedEvent == [kind |-> "system", text |-> <<Lit("(copied to clipboard)")>>]

HasEvent(events, ev) == \E i \in 1..Len(events) : events[i] = ev

\* C31: the clipboard writer is called, once, exactly when the rewrite call
\* has succeeded with copy on and check off; the '(copied to clipboard)' event
\* is among the events iff the writer was called and reported success; when
\* it reported failure the call resolves without any error event
C31_ClipboardAfterCopyOnly ==
  busy =>
    /\ calls.clipboardWriter \in {0, 1}
    /\ (calls.clipboardWriter = 1) =
         (calls.rewriteImpl = 1 /\ deps.rewrite.kind = "ok" /\ state.copy /\ ~state.check)
    /\ HasEvent(outcome.events, CopiedEvent) = (calls.clipboardWriter = 1 /\ deps.copied)
    /\ (calls.clipboardWriter = 1 /\ ~deps.copied) =>
          /\ outcome.status = "resolved"
          /\ CountKind(outcome.events, "error") = 0
          /\ CountKind(outcome.events, "assistant") + CountKind(outcome.events, "success") = 1

\* copy is on, check is on, and a rewrite has succeeded
C31_Witness ==
  /\ busy
  /\ state.copy
  /\ state.check
  /\ calls.rewriteImpl = 1
  /\ deps.rewrite.kind = "ok"
  /\ calls.clipboardWriter = 0


\* what the setup offer wrote during the call in flight, blank lines left out
SetupLinesShown ==
  IF calls.setupRunner = 0 THEN <<>>
  ELSE SelectSeq(
         maybeRunInteractiveSetupOnMissingKey(
           [provider |-> state.provider, stdinIsTTY |-> deps.stdinIsTTY,
            stdoutIsTTY |-> deps.stdoutIsTTY, answers |-> deps.answers,
            verifyFails |-> deps.verifyFails, writeFails |-> deps.writeFails], env, file).lines,
         LAMBDA l : l # <<>>)

TokensShown == state.tokens /\ deps.rewrite.usage

IsTokenEvent(ev) == ev.kind = "system" /\ ev.text # <<>> /\ ev.text[1] = Lit("tokens: ")

\* the events of a successful rewrite are laid out as: the setup lines, the
\* result, the token counts, the clipboard confirmation
LaidOut(events, shown, tokens, copied) ==
  /\ Len(events) = Len(shown) + 1 + (IF tokens THEN 1 ELSE 0) + (IF copied THEN 1 ELSE 0)
  /\ \A i \in 1..Len(shown) : events[i] = [kind |-> "system", text |-> shown[i]]
  /\ events[Len(shown) + 1].kind \in {"assistant", "success"}
  /\ tokens => IsTokenEvent(events[Len(shown) + 2])
  /\ copied => events[Len(events)] = CopiedEvent
  /\ \A i \in 1..Len(events) :
       /\ IsTokenEvent(events[i]) => (tokens /\ i = Len(shown) + 2)
       /\ events[i] = CopiedEvent => (copied /\ i = Len(events))

RewritePathReturned == busy /\ calls.resolveApiKey >= 1 /\ outcome.status = "resolved"

\* the setup offer was made during the call in flight and the wizard ran
SetupRanInCall ==
  /\ calls.setupRunner = 1
  /\ maybeRunInteractiveSetupOnMissingKey(
       [provider |-> state.provider, stdinIsTTY |-> deps.stdinIsTTY,
        stdoutIsTTY |-> deps.stdoutIsTTY, answers |-> deps.answers,
        verifyFails |-> deps.verifyFails, writeFails |-> deps.writeFails], env, file).ran

\* the config as resolved after the call's setup: nothing the call does later
\* touches the file or the environment
Reresolved == resolveConfig(overrides, file, env)

\* C33: on the rewrite path the returned state has the input state's provider;
\* when setup ran and the re-resolved config has that provider, the returned
\* state is the input state with the re-resolved model, timeoutMs and baseUrl;
\* otherwise it is the input state
C33_RefreshKeepsProvider ==
  RewritePathReturned =>
    /\ outcome.state.provider = state.provider
    /\ IF SetupRanInCall /\ Reresolved.provider = state.provider
       THEN outcome.state = [state EXCEPT !.model = Reresolved.model,
                                          !.timeoutMs = Reresolved.timeoutMs,
                                          !.baseUrl = Reresolved.baseUrl]
       ELSE outcome.state = state

\* a model set with /model is replaced by the re-resolved one
C33_Witness ==
  /\ RewritePathReturned
  /\ SetupRanInCall
  /\ state.model = sM1
  /\ Reresolved.provider = state.provider
  /\ outcome.state.model = DEFAULT_MODELS[state.provider]


\* C34: in one call the setup runner and the rewrite implementation are each
\* invoked at most once; a call that applies a command invokes neither and
\* looks up no key; the rewrite implementation is invoked only for the state's
\* provider and with that provider's non-empty key; and a call invokes the
\* setup runner only if, when it was made, the state's provider had no key
C34_CallsPerSubmission ==
  /\ [](busy =>
          /\ calls.setupRunner \in {0, 1}
          /\ calls.rewriteImpl \in {0, 1}
          /\ calls.applyChatCommand = 1 =>
               calls.setupRunner = 0 /\ calls.rewriteImpl = 0 /\ calls.resolveApiKey = 0
          /\ calls.setupRunner = 1 => calls.applyChatCommand = 0
          /\ calls.rewriteImpl = 1 =>
               /\ calls.rewriteProvider = state.provider
               /\ calls.rewriteKey # None
               /\ calls.rewriteKey[1] # <<>>
               /\ calls.rewriteKey = env[keyMap[state.provider]])
  /\ [][(~busy /\ busy' /\ calls'.setupRunner = 1) =>
          (env[keyMap[state.provider]] = None \/ env[keyMap[state.provider]] = <<<<>>>>)]_vars
  /\ [][(~busy /\ busy' /\ env[keyMap[state.provider]] \notin {None, <<<<>>>>}) =>
          (calls'.setupRunner = 0 /\ env' = env /\ file' = file)]_vars

\* one call ran the setup and then the rewrite
C34_Witness ==
  /\ busy
  /\ calls.setupRunner = 1
  /\ calls.rewriteImpl = 1
  /\ calls.resolveApiKey = 2


\* the two characters in front of the i-th line of the diff
DiffPrefixAt(i) == SubSeq(LinesFrom(outcome.diff, 1)[i], 1, 2)

\* each text is one line, and the two differ
OneLineEachAndDifferent ==
  /\ \A i \in 1..Len(input.original) : input.original[i] # "\n"
  /\ \A i \in 1..Len(input.rewritten) : input.rewritten[i] # "\n"
  /\ input.original # input.rewritten

\* C35: no added line of the diff is directly followed by a removed line, so
\* that in every run of changed lines the removed lines come before the added
\* ones; and where removing first and adding first are equally good (one line
\* replaced by another) the line is added at the last step of the backtrack,
\* so that it is printed after the removed one
C35_RemovedBeforeAdded ==
  /\ \A i \in 1..(Len(LinesFrom(outcome.diff, 1)) - 1) :
       ~(DiffPrefixAt(i) = <<"+", " ">> /\ DiffPrefixAt(i + 1) = <<"-", " ">>)
  /\ OneLineEachAndDifferent =>
       LinesFrom(outcome.diff, 1) =
         << <<"-", " ">> \o input.original, <<"+", " ">> \o input.rewritten >>

\* two lines are replaced by two others
C35_Witness ==
  /\ input.original = <<"a", "\n", "a">>
  /\ input.rewritten = <<"+", "\n", "+">>
  /\ LinesFrom(outcome.diff, 1) =
       << <<"-", " ", "a">>, <<"-", " ", "a">>, <<"+", " ", "+">>, <<"+", " ", "+">> >>


\* C36: the session state's timeoutMs, and that of every state a call
\* returns, is a positive integer, whatever timeouts the config file, the
\* environment and the flags supply
C36_TimeoutPositive ==
  /\ state.timeoutMs \in Nat \ {0}
  /\ (busy /\ outcome.status = "resolved") => outcome.state.timeoutMs \in Nat \ {0}


----------------------------------------------------------------------------
(* Claims about the command catalog, checked under CommandSpec.            *)

\* the call in flight was answered by a branch other than the default one
HandledAsCommand == outcome.events # <<[kind |-> "system", text |-> UnknownCommandMessage]>>

\* the catalog offers '/w': as a known name, in the help text, as a suggestion
Suggested(w) ==
  \E i \in 1..Len(listChatCommandSuggestions(w)) :
     listChatCommandSuggestions(w)[i].command = <<"/">> \o w

\* C37: for the command word of every line the processor is given, the word
\* is a known command, is listed in the help text and is suggested for
\* itself, each if and only if the processor answers in a branch other than
\* 'Unknown command'
C37_CatalogAgreesWithProcessor ==
  CommandApplied =>
    /\ isKnownChatCommand(TypedWord(input)) = HandledAsCommand
    /\ HasPiece(helpText, Val(<<"/">> \o TypedWord(input))) = HandledAsCommand
    /\ Suggested(TypedWord(input)) = HandledAsCommand

\* /tokens is known and handled
C37_Witness ==
  /\ CommandApplied
  /\ TypedWord(input) = <<"t", "o", "k", "e", "n", "s">>
  /\ HandledAsCommand
  /\ isKnownChatCommand(TypedWord(input))


\* the call in flight was given several lines and applied a command: the
\* first token of the first line is a known command name
MultilineCommand == busy /\ HasLineBreak(input) /\ calls.applyChatCommand = 1

\* C38: a multi-line input routed to the command processor because its first
\* token is a known command name is never answered with 'Unknown command',
\* whether a space or a tab separates the name from its argument
C38_RoutedCommandIsApplied ==
  MultilineCommand =>
    outcome.events # <<[kind |-> "system", text |-> UnknownCommandMessage]>>


\* the offer made for the state's provider is accepted, and the wizard is left
\* with a key entered for another provider
OtherProviderSetUp(d) ==
  /\ ~Truthy(env[keyMap[state.provider]])
  /\ d.stdinIsTTY /\ d.stdoutIsTTY
  /\ askYesNo(d.answers, "offer", TRUE).ok
  /\ askYesNo(d.answers, "offer", TRUE).value
  /\ setupImpl(OfferOptions(d, state.provider), file).status = "ok"
  /\ Truthy(setupImpl(OfferOptions(d, state.provider), file).apiKey)
  /\ setupImpl(OfferOptions(d, state.provider), file).provider # state.provider

\* the last n events
LastEvents(events, n) ==
  IF n > Len(events) THEN <<>> ELSE SubSeq(events, Len(events) - n + 1, Len(events))

\* C39: when the offer made for the state's provider is accepted and a key is
\* entered in the wizard for another provider, the environment changes in that
\* other provider's variable only, the state's provider still has no key, and
\* the call returns the missing-key error events of the state's provider
\* without a rewrite call
C39_KeyForSelectedProviderOnly ==
  [][(~busy /\ busy' /\ OtherProviderSetUp(deps')) =>
       /\ env' = [env EXCEPT ![keyMap[setupImpl(OfferOptions(deps', state.provider), file).provider]] =
                                 setupImpl(OfferOptions(deps', state.provider), file).apiKey]
       /\ env'[keyMap[state.provider]] = env[keyMap[state.provider]]
       /\ calls'.setupRunner = 1
       /\ calls'.rewriteImpl = 0
       /\ outcome'.status = "resolved"
       /\ outcome'.state.provider = state.provider
       /\ ~outcome'.shouldExit
       /\ LastEvents(outcome'.events,
                     Len(LineEvents("error", buildMissingApiKeyErrorLines(state.provider))))
            = LineEvents("error", buildMissingApiKeyErrorLines(state.provider))
       /\ \A i \in 1..Len(outcome'.events) : outcome'.events[i].kind \in {"system", "error"}]_vars

\* the wizard offered for anthropic was answered with openrouter and a key
C39_Witness ==
  /\ busy
  /\ input = sHi
  /\ state.provider = "anthropic"
  /\ deps.answers = <<sYes, ProviderChars["openrouter"], <<>>, <<>>, <<"u">>, sKey, sYes>>
  /\ calls.setupRunner = 1
  /\ calls.rewriteImpl = 0
  /\ env["OPENROUTER_API_KEY"] = Some(sKey)
  /\ env["ANTHROPIC_API_KEY"] = None
  /\ outcome.events[Len(outcome.events)].kind = "error"

====
